---- MODULE Spec2Model ----
(***************************************************************************)
(* Workflow engine, HITL approval gate and approval decisions of fuega-ai:  *)
(* backend/app/core/workflow_engine.py and backend/app/api/approvals.py.    *)
(*                                                                          *)
(* Every HTTP handler is a task.  A task runs from its entry to its return  *)
(* through the points where the code commits and awaits; in Spec one task   *)
(* runs at a time (the calls arrive one after the other).                   *)
(***************************************************************************)
EXTENDS Integers, Sequences, FiniteSets, TLC

VARIABLES
    runs,        \* workflow_runs table: run id -> run record
    steps,       \* workflow_steps table: run id -> step id -> step record
    approvals,   \* approval_queue table: approval id -> approval record
    modes,       \* agent_action_configs table: <<agent, action>> -> mode or NoRow
    history,     \* MessageBus._history: the published messages, oldest first
    agentCalls,  \* run id -> step id -> number of agent.think calls made for it
    tasks,       \* task id -> the handler it runs and where it stands in it
    request,     \* the last call received: its handler and its request body
    response,    \* what the last handler returned to its caller
    now,         \* the clock (datetime.utcnow), in hours
    leads,       \* leads table: lead id -> stage, followup_count, last_followup_at
    utcnow,      \* datetime.utcnow() of the follow-up engine, in whole days
    lead_call,   \* the last call of a route of the leads and its answer
    sweep,       \* the day of the last daily sweep, the leads it sent to, the last listing of due leads
    subscribers, \* MessageBus._subscribers, in the order of the dict
    published,   \* every message passed to MessageBus.publish so far, in order
    call         \* the publish call in progress: where it stands, its handlers

engineVars ==
    <<runs, steps, approvals, modes, history, agentCalls, tasks, request,
      response, now>>
leadVars == <<leads, utcnow, lead_call, sweep>>
busVars == <<subscribers, published, call>>
vars == <<engineVars, leadVars, busVars>>

----------------------------------------------------------------------------
(* Bounds of the model *)

\* number of runs that start_workflow may create
MaxRuns == 1
\* hours the clock may advance: the calls that get past their validation come
\* an hour apart, and no call is made after MaxClock hours
MaxClock == 3

----------------------------------------------------------------------------
(* Values *)

None == "None"          \* Python None / SQL NULL for a string column
NoId == 0               \* Python None / SQL NULL for an integer id
NoRow == "no_row"       \* no agent_action_configs row for the pair

\* WorkflowStatus
W_RUNNING == "running"
W_PAUSED == "paused_for_approval"
W_COMPLETED == "completed"
W_FAILED == "failed"
W_CANCELLED == "cancelled"

\* StepStatus
S_PENDING == "pending"
S_RUNNING == "running"
S_COMPLETED == "completed"
S_FAILED == "failed"
S_SKIPPED == "skipped"
S_AWAITING == "awaiting_approval"

\* ApprovalStatus
A_PENDING == "pending"
A_APPROVED == "approved"
A_REJECTED == "rejected"

\* HITLMode
M_AUTO == "auto"
M_APPROVE == "approve"
M_MANUAL == "manual"

HITL_CONTROLLED_ACTIONS ==
    {"send_email", "post_tweet", "make_api_call", "update_lead",
     "draft_outreach", "format_and_publish", "send"}

\* hours an approval request is given before it expires
ApprovalExpiryHours == 24

\* Structured outputs an agent returns: "low" carries overall_score 5, "high"
\* carries overall_score 9.  "mod" is a payload a human typed into an approval
\* ({"x": 1}: no overall_score), "empty" is the payload {}.
Outputs == {"low", "high"}
ModifiedPayloads == {"mod", "empty"}

\* Python's truth value of an optional dict: None and {} are false
Truthy(payload) == payload \notin {None, "empty"}

\* output_data.get("overall_score", 10) if output_data else 10
OverallScore(output) ==
    IF output = "low" THEN 5
    ELSE IF output = "high" THEN 9
    ELSE 10

----------------------------------------------------------------------------
(* Pipeline definitions (config/workflows.yaml, read-only input) *)

NoRetry == [threshold |-> 0, max_revisions |-> 0, retry_step |-> None]

StepDef(id, agent, action, next, human, retry) ==
    [id |-> id, agent |-> agent, action |-> action, next |-> next,
     requires_human_approval |-> human, retry_on_low_score |-> retry]

\* the agents registered with the engine (register_agent); "ghost" is named by
\* a definition and not registered
RegisteredAgents == {"elena", "editor"}

WorkflowsConfig ==
    [ outreach |-> <<
        StepDef("a", "elena", "scout", "b", FALSE, NoRetry),
        StepDef("b", "elena", "send_email", "c", FALSE, NoRetry),
        StepDef("c", "editor", "report", None, FALSE, NoRetry) >>,
      content |-> <<
        StepDef("a", "elena", "write", "b", FALSE, NoRetry),
        StepDef("b", "editor", "review", "c", FALSE,
                [threshold |-> 7, max_revisions |-> 2, retry_step |-> "a"]),
        StepDef("c", "elena", "publish", None, FALSE, NoRetry) >>,
      gated |-> <<
        StepDef("a", "elena", "plan", "b", FALSE, NoRetry),
        StepDef("b", "editor", "human_review", "c", TRUE, NoRetry),
        StepDef("c", None, "archive", None, FALSE, NoRetry) >>,
      broken |-> <<
        StepDef("a", "editor", "plan", "b", FALSE, NoRetry),
        StepDef("b", "ghost", "report", "c", FALSE, NoRetry),
        StepDef("c", "editor", "report", None, FALSE, NoRetry) >>,
      revise |-> <<
        StepDef("a", "elena", "send_email", "b", FALSE, NoRetry),
        StepDef("b", "editor", "review", "c", FALSE,
                [threshold |-> 7, max_revisions |-> 1, retry_step |-> "a"]),
        StepDef("c", "elena", "send_email", None, FALSE,
                [threshold |-> 7, max_revisions |-> 1, retry_step |-> "a"]) >>,
      notify |-> <<
        StepDef("a", "elena", "send_email", None, FALSE,
                [threshold |-> 7, max_revisions |-> 1, retry_step |-> "a"]) >>,
      empty |-> << >> ]

DefinedWorkflows == DOMAIN WorkflowsConfig
\* the names a caller may pass to start_workflow
WorkflowNames == DefinedWorkflows \cup {"unknown"}
StepIds == {"a", "b", "c"}

\* a lookup that falls back on a defined workflow when the name is unknown
GetConfig_Fallback(name) ==
    IF name \in DefinedWorkflows THEN WorkflowsConfig[name]
    ELSE WorkflowsConfig["outreach"]

\* workflows_config.get("workflows", {}).get(workflow_name)
GetConfig(name) ==
    IF name \in DefinedWorkflows THEN WorkflowsConfig[name] ELSE << >>

\* steps_config = {s["id"]: s for s in config["steps"]}
ConfigStepIds(name) == {GetConfig(name)[i].id : i \in 1..Len(GetConfig(name))}

HasStepCfg(name, id) == id \in ConfigStepIds(name)

StepCfg(name, id) ==
    LET cfg == GetConfig(name)
    IN  cfg[CHOOSE i \in 1..Len(cfg) : cfg[i].id = id]

\* the (agent, action) pairs of the definitions under HITL control
ControlledPairs ==
    {<<"elena", "send_email">>}

----------------------------------------------------------------------------
(* Records *)

Tasks == {"t1"}

IdleTask ==
    [pc |-> "idle", kind |-> None, run |-> NoId, current_step_id |-> None,
     queue |-> {}, body |-> None]

\* WorkflowRun(...) in start_workflow
NewRun(name) ==
    [workflow_name |-> name, status |-> W_RUNNING,
     current_step_id |-> GetConfig(name)[1].id, trigger |-> "manual",
     context |-> << >>, error_message |-> << >>]

\* WorkflowStep(...) in start_workflow; retry_count and approval_id take the
\* column defaults
NewStep(cfg) ==
    [step_id |-> cfg.id, agent_slug |-> cfg.agent, action |-> cfg.action,
     status |-> S_PENDING, output_data |-> None, retry_count |-> 0,
     approval_id |-> NoId, error_message |-> None]

\* a gate that files the request as already approved
NewApproval_Approved(agent, action, payload, run_id, step_id) ==
    [agent_slug |-> agent, action_name |-> action, payload |-> payload,
     context |-> [run_id |-> run_id, step_id |-> step_id],
     status |-> A_APPROVED, decided_by |-> NoId, decided_at |-> -1,
     rejection_reason |-> None, modified_payload |-> None,
     created_at |-> now, expires_at |-> now + ApprovalExpiryHours]

\* ApprovalRequest(...) in check_hitl
NewApproval(agent, action, payload, run_id, step_id) ==
    [agent_slug |-> agent, action_name |-> action, payload |-> payload,
     context |-> [run_id |-> run_id, step_id |-> step_id],
     status |-> A_PENDING, decided_by |-> NoId, decided_at |-> -1,
     rejection_reason |-> None, modified_payload |-> None,
     created_at |-> now, expires_at |-> now + ApprovalExpiryHours]

\* a message of the bus: {"event": event, "data": data}
Msg(event, run_id, step_id, approval_id, status) ==
    [event |-> event, run_id |-> run_id, step_id |-> step_id,
     approval_id |-> approval_id, status |-> status]

\* MessageBus.MAX_HISTORY
MAX_HISTORY == 1000

\* a history that keeps its first MAX_HISTORY entries
Publish_KeepsOldest(h, msg) ==
    LET all == Append(h, msg)
    IN  IF Len(all) > MAX_HISTORY
        THEN SubSeq(all, 1, MAX_HISTORY)
        ELSE all

\* MessageBus.publish, the history: self._history.append(message), then only
\* the last MAX_HISTORY entries are kept
Publish(h, msg) ==
    LET all == Append(h, msg)
    IN  IF Len(all) > MAX_HISTORY
        THEN SubSeq(all, Len(all) - MAX_HISTORY + 1, Len(all))
        ELSE all

\* how many times msg stands in the history h
CopiesOf(msg, h) == Cardinality({i \in 1..Len(h) : h[i] = msg})

\* run.context[step_id] = value
ContextPut(ctx, key, value) ==
    [k \in (DOMAIN ctx) \cup {key} |-> IF k = key THEN value ELSE ctx[k]]

RunIds == 1..Len(runs)
ApprovalIds == 1..Len(approvals)

AllIdle == \A t \in Tasks : tasks[t].pc = "idle"

----------------------------------------------------------------------------
(* Initial state: empty tables, some configuration of the action modes *)

\* no publish call in progress
IdleCall == [pc |-> "idle", event |-> << >>, invoked |-> << >>, coros |-> << >>,
             pending |-> {}]

\* the leads table is empty
InitLeads ==
    /\ leads = << >>
    /\ utcnow = 0
    /\ lead_call = [handler |-> None, lead_id |-> NoId, dry_run |-> FALSE,
                    stage |-> None, status |-> None]
    /\ sweep = [at |-> 0, pending |-> {}, sent |-> {}]

\* MessageBus.__init__: no subscriber, no history
InitBus ==
    /\ subscribers = << >>
    /\ published = << >>
    /\ call = IdleCall

Init ==
    /\ runs = << >>
    /\ steps = << >>
    /\ approvals = << >>
    /\ modes \in [ControlledPairs -> {NoRow, M_AUTO, M_APPROVE, M_MANUAL}]
    /\ history = << >>
    /\ agentCalls = << >>
    /\ tasks = [t \in Tasks |-> IdleTask]
    /\ request = [handler |-> None, body |-> None]
    /\ response = [handler |-> None, status |-> None]
    /\ now = 0
    /\ InitLeads
    /\ InitBus

----------------------------------------------------------------------------
(* Helpers of the engine *)

\* a check_hitl that lets an action without mode row through
HitlMode_DefaultAuto(agent, action) ==
    IF <<agent, action>> \in DOMAIN modes /\ modes[<<agent, action>>] # NoRow
    THEN modes[<<agent, action>>]
    ELSE M_AUTO

\* check_hitl: mode = config.mode if config else HITLMode.APPROVE
HitlMode(agent, action) ==
    IF <<agent, action>> \in DOMAIN modes /\ modes[<<agent, action>>] # NoRow
    THEN modes[<<agent, action>>]
    ELSE M_APPROVE

\* a revision loop whose budget check is off by one
RetryDue_OneMore(cfg, output, retry_count) ==
    /\ cfg.retry_on_low_score # NoRetry
    /\ OverallScore(output) < cfg.retry_on_low_score.threshold
    /\ retry_count <= cfg.retry_on_low_score.max_revisions

\* _execute_workflow: the revision loop's condition
RetryDue(cfg, output, retry_count) ==
    /\ cfg.retry_on_low_score # NoRetry
    /\ OverallScore(output) < cfg.retry_on_low_score.threshold
    /\ retry_count < cfg.retry_on_low_score.max_revisions

\* steps_config.get(step_id, {}).get("next")
NextOf(name, step_id) ==
    IF HasStepCfg(name, step_id) THEN StepCfg(name, step_id).next ELSE None

\* a handler returns: the response goes to the caller and the task ends
Return(t, handler, status) ==
    /\ tasks' = [tasks EXCEPT ![t] = IdleTask]
    /\ response' = [handler |-> handler, status |-> status]

\* _execute_workflow returns to the handler that called it; bulk_approve goes
\* on with its next item, the other handlers return
LoopReturns(t) ==
    IF tasks[t].kind = "bulk_approve" /\ tasks[t].queue # {}
    THEN /\ tasks' = [tasks EXCEPT ![t].pc = "bulk"]
         /\ UNCHANGED response
    ELSE Return(t, tasks[t].kind, "ok")

\* a call is rejected by its validation
Rejected(t, handler, status) ==
    /\ Return(t, handler, status)
    /\ UNCHANGED now

\* a call gets past its validation
Accepted ==
    /\ now < MaxClock
    /\ now' = now + 1

\* a handler calls _execute_workflow(run, config, db)
EnterLoop(t, kind, run_id, step_id, queue) ==
    /\ tasks' = [tasks EXCEPT ![t] =
                    [pc |-> "loop", kind |-> kind, run |-> run_id,
                     current_step_id |-> step_id, queue |-> queue,
                     body |-> None]]
    /\ UNCHANGED response

----------------------------------------------------------------------------
(* WorkflowEngine.start_workflow *)

StartWorkflow(t, name) ==
    /\ AllIdle
    /\ request' = [handler |-> "start_workflow", body |-> name]
    /\ IF Len(GetConfig(name)) = 0
       THEN \* raise ValueError: unknown workflow, or no steps defined
            /\ Rejected(t, "start_workflow", "ValueError")
            /\ UNCHANGED <<runs, steps, approvals, modes, history, agentCalls>>
       ELSE /\ Len(runs) < MaxRuns
            /\ Accepted
            /\ LET id == Len(runs) + 1
                   cfg == GetConfig(name)
               IN  /\ runs' = Append(runs, NewRun(name))
                   /\ steps' = Append(steps,
                         [s \in ConfigStepIds(name) |-> NewStep(StepCfg(name, s))])
                   /\ agentCalls' = Append(agentCalls,
                         [s \in ConfigStepIds(name) |-> 0])
                   /\ history' = Publish(history,
                         Msg(<<"workflow", name, "started">>, id, None, NoId, None))
                   /\ EnterLoop(t, "start_workflow", id, cfg[1].id, {})
            /\ UNCHANGED <<approvals, modes>>
    /\ UNCHANGED <<leadVars, busVars>>

----------------------------------------------------------------------------
(* WorkflowEngine._execute_workflow *)

\* a loop head without the human approval gate: every step goes on to its agent
LoopHead_GateSkipped(t) ==
    /\ tasks[t].pc = "loop"
    /\ LET r == tasks[t].run
           cur == tasks[t].current_step_id
           name == runs[r].workflow_name
       IN  IF cur = None \/ ~HasStepCfg(name, cur)
           THEN \* the loop is over: the workflow completed
                /\ runs' = [runs EXCEPT ![r].status = W_COMPLETED]
                /\ history' = Publish(history,
                      Msg(<<"workflow", name, "completed">>, r, None, NoId, None))
                /\ LoopReturns(t)
                /\ UNCHANGED steps
           ELSE IF FALSE
           THEN \* the human approval gate
                /\ steps' = [steps EXCEPT ![r][cur].status = S_AWAITING]
                /\ runs' = [runs EXCEPT ![r].status = W_PAUSED,
                                        ![r].current_step_id = cur]
                /\ history' = Publish(history,
                      Msg(<<"workflow", "approval_needed">>, r, cur, NoId, None))
                /\ LoopReturns(t)
           ELSE /\ steps' = [steps EXCEPT ![r][cur].status = S_RUNNING]
                /\ history' = Publish(history,
                      Msg(<<"agent",
                            IF StepCfg(name, cur).agent = None THEN "system"
                            ELSE StepCfg(name, cur).agent,
                            "running">>, r, cur, NoId, None))
                /\ tasks' = [tasks EXCEPT ![t].pc = "exec"]
                /\ UNCHANGED <<runs, response>>
    /\ UNCHANGED <<approvals, modes, agentCalls, request, now>>
    /\ UNCHANGED <<leadVars, busVars>>

\* the head of the while loop, up to the commit that marks the step RUNNING
LoopHead(t) ==
    /\ tasks[t].pc = "loop"
    /\ LET r == tasks[t].run
           cur == tasks[t].current_step_id
           name == runs[r].workflow_name
       IN  IF cur = None \/ ~HasStepCfg(name, cur)
           THEN \* the loop is over: the workflow completed
                /\ runs' = [runs EXCEPT ![r].status = W_COMPLETED]
                /\ history' = Publish(history,
                      Msg(<<"workflow", name, "completed">>, r, None, NoId, None))
                /\ LoopReturns(t)
                /\ UNCHANGED steps
           ELSE IF StepCfg(name, cur).requires_human_approval
           THEN \* the human approval gate
                /\ steps' = [steps EXCEPT ![r][cur].status = S_AWAITING]
                /\ runs' = [runs EXCEPT ![r].status = W_PAUSED,
                                        ![r].current_step_id = cur]
                /\ history' = Publish(history,
                      Msg(<<"workflow", "approval_needed">>, r, cur, NoId, None))
                /\ LoopReturns(t)
           ELSE /\ steps' = [steps EXCEPT ![r][cur].status = S_RUNNING]
                /\ history' = Publish(history,
                      Msg(<<"agent",
                            IF StepCfg(name, cur).agent = None THEN "system"
                            ELSE StepCfg(name, cur).agent,
                            "running">>, r, cur, NoId, None))
                /\ tasks' = [tasks EXCEPT ![t].pc = "exec"]
                /\ UNCHANGED <<runs, response>>
    /\ UNCHANGED <<approvals, modes, agentCalls, request, now>>
    /\ UNCHANGED <<leadVars, busVars>>

\* a failure branch that forgets the run: the step is FAILED, the run is not
StepFails_RunNotFailed(t, error) ==
    LET r == tasks[t].run
        cur == tasks[t].current_step_id
    IN  /\ steps' = [steps EXCEPT ![r][cur].status = S_FAILED,
                                  ![r][cur].error_message = error]
        /\ runs' = runs
        /\ LoopReturns(t)
        /\ UNCHANGED <<approvals, history>>

\* the step failed: the except branch, and the branch of an unregistered agent
StepFails(t, error) ==
    LET r == tasks[t].run
        cur == tasks[t].current_step_id
    IN  /\ steps' = [steps EXCEPT ![r][cur].status = S_FAILED,
                                  ![r][cur].error_message = error]
        /\ runs' = [runs EXCEPT ![r].status = W_FAILED,
                                ![r].error_message = <<cur, error>>]
        /\ LoopReturns(t)
        /\ UNCHANGED <<approvals, history>>

\* an iteration that advances without marking its step COMPLETED
CompleteStep_NotMarked(t, stepsDone, runsDone) ==
    LET r == tasks[t].run
        cur == tasks[t].current_step_id
        cfg == StepCfg(runs[r].workflow_name, cur)
    IN  /\ steps' = stepsDone
        /\ runs' = [runsDone EXCEPT ![r].current_step_id = cfg.next]
        /\ tasks' = [tasks EXCEPT ![t].pc = "loop",
                                  ![t].current_step_id = cfg.next]
        /\ UNCHANGED response

\* the end of an iteration, from step.status = COMPLETED on: `stepsDone` and
\* `runsDone` are the tables as the iteration has left them so far
CompleteStep(t, stepsDone, runsDone) ==
    LET r == tasks[t].run
        cur == tasks[t].current_step_id
        cfg == StepCfg(runs[r].workflow_name, cur)
        st == stepsDone[r][cur]
    IN  IF RetryDue(cfg, st.output_data, st.retry_count)
        THEN LET back == cfg.retry_on_low_score.retry_step
             IN  /\ steps' = [stepsDone EXCEPT ![r][cur].status = S_COMPLETED,
                                  ![r][cur].retry_count = st.retry_count + 1]
                 /\ runs' = [runsDone EXCEPT ![r].current_step_id = back]
                 /\ tasks' = [tasks EXCEPT ![t].pc = "loop",
                                           ![t].current_step_id = back]
                 /\ UNCHANGED response
        ELSE /\ steps' = [stepsDone EXCEPT ![r][cur].status = S_COMPLETED]
             /\ runs' = [runsDone EXCEPT ![r].current_step_id = cfg.next]
             /\ tasks' = [tasks EXCEPT ![t].pc = "loop",
                                       ![t].current_step_id = cfg.next]
             /\ UNCHANGED response

\* the agent returned `output`: store it, thread it into the context, pass the
\* HITL gate and complete the step
AgentReturns(t, output) ==
    LET r == tasks[t].run
        cur == tasks[t].current_step_id
        cfg == StepCfg(runs[r].workflow_name, cur)
        stepsOut == [steps EXCEPT ![r][cur].output_data = output]
        runsOut == [runs EXCEPT ![r].context = ContextPut(runs[r].context, cur, output)]
        mode == HitlMode(cfg.agent, cfg.action)
        done == Msg(<<"agent", cfg.agent, "completed">>, r, cur, NoId, None)
    IN  IF cfg.action \in HITL_CONTROLLED_ACTIONS /\ mode = M_MANUAL
        THEN \* check_hitl: {"proceed": False, "reason": "manual_only"}
             /\ steps' = [stepsOut EXCEPT ![r][cur].status = S_AWAITING]
             /\ runs' = [runsOut EXCEPT ![r].status = W_PAUSED,
                                        ![r].current_step_id = cur]
             /\ history' = Publish(history,
                   Msg(<<"workflow", "approval_needed">>, r, cur, NoId, "manual_only"))
             /\ LoopReturns(t)
             /\ UNCHANGED approvals
        ELSE IF cfg.action \in HITL_CONTROLLED_ACTIONS /\ mode = M_APPROVE
        THEN \* check_hitl creates the approval request
             LET id == Len(approvals) + 1
             IN  /\ approvals' = Append(approvals,
                        NewApproval(cfg.agent, cfg.action, output, r, cur))
                 /\ steps' = [stepsOut EXCEPT ![r][cur].status = S_AWAITING,
                                              ![r][cur].approval_id = id]
                 /\ runs' = [runsOut EXCEPT ![r].status = W_PAUSED,
                                            ![r].current_step_id = cur]
                 /\ history' = Publish(
                        Publish(history,
                            Msg(<<"approval", "requested">>, NoId, None, id, None)),
                        Msg(<<"workflow", "approval_needed">>, r, cur, id,
                            "awaiting_approval"))
                 /\ LoopReturns(t)
        ELSE /\ history' = Publish(history, done)
             /\ CompleteStep(t, stepsOut, runsOut)
             /\ UNCHANGED approvals

\* the body of an iteration, from the agent lookup to the end of the iteration
ExecuteStep(t) ==
    /\ tasks[t].pc = "exec"
    /\ LET r == tasks[t].run
           cur == tasks[t].current_step_id
           cfg == StepCfg(runs[r].workflow_name, cur)
       IN  IF cfg.agent \in RegisteredAgents
           THEN /\ agentCalls' = [agentCalls EXCEPT ![r][cur] = @ + 1]
                /\ \/ \E output \in Outputs : AgentReturns(t, output)
                   \/ StepFails(t, "agent_error")
           ELSE IF cfg.agent # None
           THEN /\ StepFails(t, "Agent not registered")
                /\ UNCHANGED agentCalls
           ELSE /\ CompleteStep(t, steps, runs)
                /\ UNCHANGED <<approvals, history, agentCalls>>
    /\ UNCHANGED <<modes, request, now>>
    /\ UNCHANGED <<leadVars, busVars>>

----------------------------------------------------------------------------
(* WorkflowEngine.approve_step *)

\* an approve_step that does not look at the status of the run
ApproveStep_AnyStatus(t, run_id, step_id, approved) ==
    /\ AllIdle
    /\ request' = [handler |-> "approve_step", body |-> None]
    /\ IF run_id \notin RunIds
       THEN \* raise ValueError("Workflow not in approval state")
            /\ Rejected(t, "approve_step", "ValueError")
            /\ UNCHANGED <<runs, steps>>
       ELSE IF step_id \notin DOMAIN steps[run_id]
       THEN \* raise ValueError("Step not found")
            /\ Rejected(t, "approve_step", "ValueError")
            /\ UNCHANGED <<runs, steps>>
       ELSE IF approved
       THEN LET next_step == NextOf(runs[run_id].workflow_name, step_id)
            IN  /\ Accepted
                /\ steps' = [steps EXCEPT ![run_id][step_id].status = S_COMPLETED]
                /\ IF next_step # None
                   THEN /\ runs' = [runs EXCEPT ![run_id].status = W_RUNNING,
                                       ![run_id].current_step_id = next_step]
                        /\ EnterLoop(t, "approve_step", run_id, next_step, {})
                   ELSE /\ runs' = [runs EXCEPT ![run_id].status = W_RUNNING]
                        /\ Return(t, "approve_step", "ok")
       ELSE /\ Accepted
            /\ steps' = [steps EXCEPT ![run_id][step_id].status = S_FAILED]
            /\ runs' = [runs EXCEPT ![run_id].status = W_CANCELLED]
            /\ Return(t, "approve_step", "ok")
    /\ UNCHANGED <<approvals, modes, history, agentCalls>>
    /\ UNCHANGED <<leadVars, busVars>>

\* approve_step(run_id, step_id, approved, db)
ApproveStep(t, run_id, step_id, approved) ==
    /\ AllIdle
    /\ request' = [handler |-> "approve_step", body |-> None]
    /\ IF run_id \notin RunIds \/ runs[run_id].status # W_PAUSED
       THEN \* raise ValueError("Workflow not in approval state")
            /\ Rejected(t, "approve_step", "ValueError")
            /\ UNCHANGED <<runs, steps>>
       ELSE IF step_id \notin DOMAIN steps[run_id]
       THEN \* raise ValueError("Step not found")
            /\ Rejected(t, "approve_step", "ValueError")
            /\ UNCHANGED <<runs, steps>>
       ELSE IF approved
       THEN LET next_step == NextOf(runs[run_id].workflow_name, step_id)
            IN  /\ Accepted
                /\ steps' = [steps EXCEPT ![run_id][step_id].status = S_COMPLETED]
                /\ IF next_step # None
                   THEN /\ runs' = [runs EXCEPT ![run_id].status = W_RUNNING,
                                       ![run_id].current_step_id = next_step]
                        /\ EnterLoop(t, "approve_step", run_id, next_step, {})
                   ELSE /\ runs' = [runs EXCEPT ![run_id].status = W_RUNNING]
                        /\ Return(t, "approve_step", "ok")
       ELSE /\ Accepted
            /\ steps' = [steps EXCEPT ![run_id][step_id].status = S_FAILED]
            /\ runs' = [runs EXCEPT ![run_id].status = W_CANCELLED]
            /\ Return(t, "approve_step", "ok")
    /\ UNCHANGED <<approvals, modes, history, agentCalls>>
    /\ UNCHANGED <<leadVars, busVars>>

----------------------------------------------------------------------------
(* WorkflowEngine.resume_from_approval *)

\* select(WorkflowStep).where(WorkflowStep.approval_id == approval_id)
LinkedSteps(approval_id) ==
    {rs \in {<<r, s>> : r \in RunIds, s \in StepIds} :
        /\ rs[2] \in DOMAIN steps[rs[1]]
        /\ steps[rs[1]][rs[2]].approval_id = approval_id}

\* the step output and the context after an approval: the modified payload
\* replaces them when the approval carries one
OutputAfterApproval(output, modified_payload) ==
    IF Truthy(modified_payload) THEN modified_payload ELSE output

\* a resume that substitutes the payload in the step only, not in the context
ContextAfterApproval_StepOnly(ctx, step_id, modified_payload) ==
    ctx

ContextAfterApproval(ctx, step_id, modified_payload) ==
    IF Truthy(modified_payload) /\ step_id \in DOMAIN ctx
    THEN ContextPut(ctx, step_id, modified_payload)
    ELSE ctx

\* resume_from_approval, called by `kind` for approval `approval_id` of the
\* table `apprs`; `queue` is what the calling handler still has to do
ResumeFromApproval(t, kind, approval_id, approved, apprs, queue) ==
    LET linked == LinkedSteps(approval_id)
        after == [tasks[t] EXCEPT !.kind = kind, !.queue = queue]
        returns ==
            IF kind = "bulk_approve" /\ queue # {}
            THEN /\ tasks' = [tasks EXCEPT ![t] = [after EXCEPT !.pc = "bulk"]]
                 /\ UNCHANGED response
            ELSE Return(t, kind, "ok")
    IN  IF Cardinality(linked) # 1
        THEN \* no linked workflow step
             /\ returns
             /\ UNCHANGED <<runs, steps>>
        ELSE LET rs == CHOOSE x \in linked : TRUE
                 r == rs[1]
                 sid == rs[2]
                 name == runs[r].workflow_name
             IN  IF runs[r].status # W_PAUSED
                 THEN /\ returns
                      /\ UNCHANGED <<runs, steps>>
                 ELSE IF approved
                 THEN LET mp == apprs[approval_id].modified_payload
                          next_step == NextOf(name, sid)
                          ctx == ContextAfterApproval(runs[r].context, sid, mp)
                      IN  /\ steps' = [steps EXCEPT
                                ![r][sid].output_data =
                                    OutputAfterApproval(@, mp),
                                ![r][sid].status = S_COMPLETED]
                          /\ IF next_step # None
                             THEN /\ runs' = [runs EXCEPT
                                        ![r].context = ctx,
                                        ![r].status = W_RUNNING,
                                        ![r].current_step_id = next_step]
                                  /\ EnterLoop(t, kind, r, next_step, queue)
                             ELSE \* this was the last step
                                  /\ runs' = [runs EXCEPT
                                        ![r].context = ctx,
                                        ![r].status = W_COMPLETED]
                                  /\ returns
                 ELSE /\ steps' = [steps EXCEPT ![r][sid].status = S_FAILED]
                      /\ runs' = [runs EXCEPT ![r].status = W_CANCELLED]
                      /\ returns

----------------------------------------------------------------------------
(* api/approvals.py: approve_action, reject_action, bulk_approve *)

\* the user who decides (user.id)
UserId == 7

\* body.modified_payload as it is stored: `if body and body.modified_payload`
StoredPayload(old, payload) == IF Truthy(payload) THEN payload ELSE old

Decided(approval_id, status) ==
    Msg(<<"approval", "decided">>, NoId, None, approval_id, status)

\* a handler that skips the check of the request's status
IsPending_Unchecked(item) == TRUE

\* `if item.status != ApprovalStatus.PENDING: raise HTTPException(400, ...)`
IsPending(item) == item.status = A_PENDING

ApproveAction(t, approval_id, payload) ==
    /\ AllIdle
    /\ request' = [handler |-> "approve_action", body |-> payload]
    /\ IF approval_id \notin ApprovalIds
       THEN /\ Rejected(t, "approve_action", "404")
            /\ UNCHANGED <<runs, steps, approvals, history>>
       ELSE IF ~IsPending(approvals[approval_id])
       THEN /\ Rejected(t, "approve_action", "400")
            /\ UNCHANGED <<runs, steps, approvals, history>>
       ELSE LET apprs == [approvals EXCEPT
                    ![approval_id].status = A_APPROVED,
                    ![approval_id].decided_by = UserId,
                    ![approval_id].decided_at = now,
                    ![approval_id].modified_payload = StoredPayload(@, payload)]
            IN  /\ Accepted
                /\ approvals' = apprs
                /\ history' = Publish(history, Decided(approval_id, "approved"))
                /\ ResumeFromApproval(t, "approve_action", approval_id, TRUE, apprs, {})
    /\ UNCHANGED <<modes, agentCalls>>
    /\ UNCHANGED <<leadVars, busVars>>

RejectAction(t, approval_id, reason) ==
    /\ AllIdle
    /\ request' = [handler |-> "reject_action", body |-> None]
    /\ IF approval_id \notin ApprovalIds
       THEN /\ Rejected(t, "reject_action", "404")
            /\ UNCHANGED <<runs, steps, approvals, history>>
       ELSE IF ~IsPending(approvals[approval_id])
       THEN /\ Rejected(t, "reject_action", "400")
            /\ UNCHANGED <<runs, steps, approvals, history>>
       ELSE LET apprs == [approvals EXCEPT
                    ![approval_id].status = A_REJECTED,
                    ![approval_id].decided_by = UserId,
                    ![approval_id].decided_at = now,
                    ![approval_id].rejection_reason = reason]
            IN  /\ Accepted
                /\ approvals' = apprs
                /\ history' = Publish(history, Decided(approval_id, "rejected"))
                /\ ResumeFromApproval(t, "reject_action", approval_id, FALSE, apprs, {})
    /\ UNCHANGED <<modes, agentCalls>>
    /\ UNCHANGED <<leadVars, busVars>>

\* bulk_approve up to its commit: every pending request among `ids` is approved
BulkApprove(t, ids) ==
    /\ AllIdle
    /\ request' = [handler |-> "bulk_approve", body |-> None]
    /\ ids # {}
    /\ LET items == {i \in ids \cap ApprovalIds : IsPending(approvals[i])}
       IN  /\ approvals' = [i \in ApprovalIds |->
                    IF i \in items
                    THEN [approvals[i] EXCEPT !.status = A_APPROVED,
                                              !.decided_by = UserId,
                                              !.decided_at = now]
                    ELSE approvals[i]]
           /\ IF items = {}
              THEN Rejected(t, "bulk_approve", "ok")
              ELSE /\ Accepted
                   /\ tasks' = [tasks EXCEPT ![t] =
                          [IdleTask EXCEPT !.pc = "bulk", !.kind = "bulk_approve",
                                           !.queue = items]]
                   /\ UNCHANGED response
    /\ UNCHANGED <<runs, steps, modes, history, agentCalls>>
    /\ UNCHANGED <<leadVars, busVars>>

\* bulk_approve's second loop, one item: publish and resume
BulkNext(t) ==
    /\ tasks[t].pc = "bulk"
    /\ \E i \in tasks[t].queue :
          /\ \A j \in tasks[t].queue : i <= j
          /\ history' = Publish(history, Decided(i, "approved"))
          /\ ResumeFromApproval(t, "bulk_approve", i, TRUE, approvals,
                                tasks[t].queue \ {i})
    /\ UNCHANGED <<approvals, modes, agentCalls, request, now>>
    /\ UNCHANGED <<leadVars, busVars>>

----------------------------------------------------------------------------
(* The calls a client may make, and the specification *)

RunIdArgs == 1..(MaxRuns + 1)
ApprovalIdArgs == 1..(Len(approvals) + 1)

Next ==
    \/ \E t \in Tasks, name \in WorkflowNames : StartWorkflow(t, name)
    \/ \E t \in Tasks : LoopHead(t)
    \/ \E t \in Tasks : ExecuteStep(t)
    \/ \E t \in Tasks, r \in RunIdArgs, s \in StepIds, ok \in BOOLEAN :
          ApproveStep(t, r, s, ok)
    \/ \E t \in Tasks, a \in ApprovalIdArgs, p \in ModifiedPayloads \cup {None} :
          ApproveAction(t, a, p)
    \/ \E t \in Tasks, a \in ApprovalIdArgs : RejectAction(t, a, "reason")
    \/ \E t \in Tasks, ids \in SUBSET ApprovalIdArgs : BulkApprove(t, ids)
    \/ \E t \in Tasks : BulkNext(t)

Spec == Init /\ [][Next]_vars

----------------------------------------------------------------------------
(* Concurrent calls.  Every request has its own database session and the     *)
(* handlers are coroutines of one event loop: a handler runs without          *)
(* interruption between two awaits, and another handler may run while it      *)
(* awaits a select, a commit or an agent.  Below each handler is cut at the  *)
(* await that separates what it read and checked from its commit; a commit   *)
(* writes the columns the handler assigned.  The context column is written as *)
(* the row stands (a session writes back its own copy of it).                 *)

RaceTasks == {"t1", "t2"}

\* the workflows started under concurrent calls: one that pauses at a human
\* gate and one that pauses on an approval request
RaceWorkflows == {"gated", "notify"}

InitRace ==
    /\ runs = << >>
    /\ steps = << >>
    /\ approvals = << >>
    /\ modes \in [ControlledPairs -> {NoRow, M_AUTO, M_APPROVE, M_MANUAL}]
    /\ history = << >>
    /\ agentCalls = << >>
    /\ tasks = [t \in RaceTasks |-> IdleTask]
    /\ request = [handler |-> None, body |-> None]
    /\ response = [handler |-> None, status |-> None]
    /\ now = 0
    /\ InitLeads
    /\ InitBus

\* the handler of task t goes on to its next await
Goes(t, pc, kind, run_id, step_id, queue, body) ==
    /\ tasks' = [tasks EXCEPT ![t] =
                    [pc |-> pc, kind |-> kind, run |-> run_id,
                     current_step_id |-> step_id, queue |-> queue,
                     body |-> body]]
    /\ UNCHANGED response

\* approve_action / reject_action up to their commit: the select and the checks
ReadApproval(t, kind, approval_id, payload) ==
    /\ tasks[t].pc = "idle"
    /\ request' = [handler |-> kind, body |-> payload]
    /\ IF approval_id \notin ApprovalIds
       THEN Rejected(t, kind, "404")
       ELSE IF ~IsPending(approvals[approval_id])
       THEN Rejected(t, kind, "400")
       ELSE /\ Goes(t, "decide", kind, NoId, None, {approval_id}, payload)
            /\ UNCHANGED now
    /\ UNCHANGED <<runs, steps, approvals, modes, history, agentCalls>>
    /\ UNCHANGED <<leadVars, busVars>>

\* approve_action / reject_action: the commit of the decision and the publish
CommitDecision(t) ==
    /\ tasks[t].pc = "decide"
    /\ Accepted
    /\ LET a == CHOOSE x \in tasks[t].queue : TRUE
           approve == tasks[t].kind = "approve_action"
       IN  /\ approvals' = [approvals EXCEPT
                  ![a].status = IF approve THEN A_APPROVED ELSE A_REJECTED,
                  ![a].decided_by = UserId,
                  ![a].decided_at = now,
                  ![a].modified_payload =
                      IF approve THEN StoredPayload(@, tasks[t].body) ELSE @,
                  ![a].rejection_reason = IF approve THEN @ ELSE "reason"]
           /\ history' = Publish(history,
                  Decided(a, IF approve THEN "approved" ELSE "rejected"))
    /\ tasks' = [tasks EXCEPT ![t].pc = "resume"]
    /\ UNCHANGED <<runs, steps, modes, agentCalls, request, response>>
    /\ UNCHANGED <<leadVars, busVars>>

\* resume_from_approval up to its commit: the selects of the linked step and
\* of its run, and the check of the run's status
ResumeRead(t) ==
    /\ tasks[t].pc = "resume"
    /\ LET a == CHOOSE x \in tasks[t].queue : TRUE
           linked == LinkedSteps(a)
       IN  IF Cardinality(linked) # 1
           THEN Return(t, tasks[t].kind, "ok")
           ELSE LET rs == CHOOSE x \in linked : TRUE
                IN  IF runs[rs[1]].status # W_PAUSED
                    THEN Return(t, tasks[t].kind, "ok")
                    ELSE Goes(t, "resuming", tasks[t].kind, rs[1], rs[2],
                              tasks[t].queue, tasks[t].body)
    /\ UNCHANGED <<runs, steps, approvals, modes, history, agentCalls, request,
                   now>>
    /\ UNCHANGED <<leadVars, busVars>>

\* resume_from_approval from its assignments on: the commit, then the loop
ResumeCommit(t) ==
    /\ tasks[t].pc = "resuming"
    /\ LET r == tasks[t].run
           sid == tasks[t].current_step_id
           name == runs[r].workflow_name
           mp == StoredPayload(None, tasks[t].body)
           next_step == NextOf(name, sid)
           ctx == ContextAfterApproval(runs[r].context, sid, mp)
       IN  IF tasks[t].kind = "approve_action"
           THEN /\ steps' = [steps EXCEPT
                      ![r][sid].output_data = OutputAfterApproval(@, mp),
                      ![r][sid].status = S_COMPLETED]
                /\ IF next_step # None
                   THEN /\ runs' = [runs EXCEPT
                              ![r].context = ctx,
                              ![r].status = W_RUNNING,
                              ![r].current_step_id = next_step]
                        /\ EnterLoop(t, tasks[t].kind, r, next_step, {})
                   ELSE /\ runs' = [runs EXCEPT
                              ![r].context = ctx,
                              ![r].status = W_COMPLETED]
                        /\ Return(t, tasks[t].kind, "ok")
           ELSE /\ steps' = [steps EXCEPT ![r][sid].status = S_FAILED]
                /\ runs' = [runs EXCEPT ![r].status = W_CANCELLED]
                /\ Return(t, tasks[t].kind, "ok")
    /\ UNCHANGED <<approvals, modes, history, agentCalls, request, now>>
    /\ UNCHANGED <<leadVars, busVars>>

\* approve_step up to its commit: the selects and the two checks
ReadStep(t, run_id, step_id, approved) ==
    /\ tasks[t].pc = "idle"
    /\ request' = [handler |-> "approve_step", body |-> None]
    /\ IF run_id \notin RunIds \/ runs[run_id].status # W_PAUSED
       THEN Rejected(t, "approve_step", "ValueError")
       ELSE IF step_id \notin DOMAIN steps[run_id]
       THEN Rejected(t, "approve_step", "ValueError")
       ELSE /\ Goes(t, "approving", "approve_step", run_id, step_id, {},
                    IF approved THEN "approve" ELSE "reject")
            /\ UNCHANGED now
    /\ UNCHANGED <<runs, steps, approvals, modes, history, agentCalls>>
    /\ UNCHANGED <<leadVars, busVars>>

\* approve_step from its assignments on: the commits, then the loop
CommitStep(t) ==
    /\ tasks[t].pc = "approving"
    /\ Accepted
    /\ LET r == tasks[t].run
           sid == tasks[t].current_step_id
           next_step == NextOf(runs[r].workflow_name, sid)
       IN  IF tasks[t].body = "approve"
           THEN /\ steps' = [steps EXCEPT ![r][sid].status = S_COMPLETED]
                /\ IF next_step # None
                   THEN /\ runs' = [runs EXCEPT ![r].status = W_RUNNING,
                                       ![r].current_step_id = next_step]
                        /\ EnterLoop(t, "approve_step", r, next_step, {})
                   ELSE /\ runs' = [runs EXCEPT ![r].status = W_RUNNING]
                        /\ Return(t, "approve_step", "ok")
           ELSE /\ steps' = [steps EXCEPT ![r][sid].status = S_FAILED]
                /\ runs' = [runs EXCEPT ![r].status = W_CANCELLED]
                /\ Return(t, "approve_step", "ok")
    /\ UNCHANGED <<approvals, modes, history, agentCalls, request>>
    /\ UNCHANGED <<leadVars, busVars>>

\* bulk_approve up to its commit: the select of the pending requests
ReadBulk(t, ids) ==
    /\ tasks[t].pc = "idle"
    /\ ids # {}
    /\ request' = [handler |-> "bulk_approve", body |-> None]
    /\ LET items == {i \in ids \cap ApprovalIds : IsPending(approvals[i])}
       IN  IF items = {}
           THEN Rejected(t, "bulk_approve", "ok")
           ELSE /\ Goes(t, "bulkdecide", "bulk_approve", NoId, None, items, None)
                /\ UNCHANGED now
    /\ UNCHANGED <<runs, steps, approvals, modes, history, agentCalls>>
    /\ UNCHANGED <<leadVars, busVars>>

\* bulk_approve: the commit of the selected requests
CommitBulk(t) ==
    /\ tasks[t].pc = "bulkdecide"
    /\ Accepted
    /\ approvals' = [i \in ApprovalIds |->
             IF i \in tasks[t].queue
             THEN [approvals[i] EXCEPT !.status = A_APPROVED,
                                       !.decided_by = UserId,
                                       !.decided_at = now]
             ELSE approvals[i]]
    /\ tasks' = [tasks EXCEPT ![t].pc = "bulk"]
    /\ UNCHANGED <<runs, steps, modes, history, agentCalls, request, response>>
    /\ UNCHANGED <<leadVars, busVars>>

NextRace ==
    \/ \E name \in RaceWorkflows : StartWorkflow("t1", name)
    \/ \E t \in RaceTasks : LoopHead(t)
    \/ \E t \in RaceTasks : ExecuteStep(t)
    \/ \E t \in RaceTasks, r \in RunIdArgs, s \in StepIds, ok \in BOOLEAN :
          ReadStep(t, r, s, ok)
    \/ \E t \in RaceTasks : CommitStep(t)
    \/ \E t \in RaceTasks, a \in ApprovalIdArgs, p \in ModifiedPayloads \cup {None} :
          ReadApproval(t, "approve_action", a, p)
    \/ \E t \in RaceTasks, a \in ApprovalIdArgs :
          ReadApproval(t, "reject_action", a, None)
    \/ \E t \in RaceTasks : CommitDecision(t)
    \/ \E t \in RaceTasks : ResumeRead(t)
    \/ \E t \in RaceTasks : ResumeCommit(t)
    \/ \E t \in RaceTasks, ids \in SUBSET ApprovalIdArgs : ReadBulk(t, ids)
    \/ \E t \in RaceTasks : CommitBulk(t)
    \/ \E t \in RaceTasks : BulkNext(t)

SpecRace == InitRace /\ [][NextRace]_vars

----------------------------------------------------------------------------
(* The follow-up engine (followup.py) and the routes that change a lead *)

\* number of leads that create_lead may create
MaxLeads == 1
\* number of days the clock of the follow-up engine may advance
MaxDay == 7

PROSPECT == "prospect"
RESEARCHED == "researched"
QUALIFIED == "qualified"
OUTREACH_DRAFTED == "outreach_drafted"
OUTREACH_SENT == "outreach_sent"
RESPONDED == "responded"
WON == "won"
LOST == "lost"

LEAD_STAGES ==
    {PROSPECT, RESEARCHED, QUALIFIED, OUTREACH_DRAFTED, OUTREACH_SENT,
     RESPONDED, WON, LOST}

FOLLOWUP_SCHEDULE ==
    << [day |-> 0, type |-> "initial"],
       [day |-> 3, type |-> "followup_1"],
       [day |-> 7, type |-> "followup_2"],
       [day |-> 14, type |-> "final"] >>

\* the `None` of _get_next_followup_step
NoStep == [day |-> -1, type |-> None]

\* Lead(...): followup_count has the server default 0, last_followup_at is null
NewLead(stage) ==
    [stage |-> stage, followup_count |-> 0, last_followup_at |-> -1]

LeadIds == 1..Len(leads)
\* the lead ids a caller may pass: the existing ones and one that does not exist
LeadIdArgs == 1..(MaxLeads + 1)

\* a step lookup that sends the last touch again when nothing is left
GetNextFollowupStep_Repeats(lead) ==
    IF lead.followup_count >= Len(FOLLOWUP_SCHEDULE)
    THEN FOLLOWUP_SCHEDULE[Len(FOLLOWUP_SCHEDULE)]
    ELSE FOLLOWUP_SCHEDULE[lead.followup_count + 1]

\* _get_next_followup_step (the list is indexed from 0 in the code)
GetNextFollowupStep(lead) ==
    IF lead.followup_count >= Len(FOLLOWUP_SCHEDULE)
    THEN NoStep
    ELSE FOLLOWUP_SCHEDULE[lead.followup_count + 1]

\* generate_followup at time t: the error it raises, or the follow-up it
\* returns, and the lead as it leaves it
GenerateFollowup(lead, dry_run, t) ==
    LET next_step == GetNextFollowupStep(lead)
        count == lead.followup_count + 1
        sent == IF lead.stage = OUTREACH_DRAFTED THEN OUTREACH_SENT
                ELSE lead.stage
        touched == [lead EXCEPT
                       !.followup_count = count,
                       !.last_followup_at = t,
                       !.stage = IF count >= Len(FOLLOWUP_SCHEDULE) THEN LOST
                                 ELSE sent]
    IN  IF next_step = NoStep
        THEN [error |-> "exhausted", followup_type |-> None, lead |-> lead]
        ELSE [error |-> None, followup_type |-> next_step.type,
              lead |-> IF dry_run THEN lead ELSE touched]

\* a route of the leads answers its caller
Answers(handler, lead_id, dry_run, stage, status) ==
    /\ lead_call' = [handler |-> handler, lead_id |-> lead_id,
                     dry_run |-> dry_run, stage |-> stage, status |-> status]
    /\ UNCHANGED <<engineVars, utcnow, sweep, busVars>>

\* POST /leads
CreateLead(stage) ==
    /\ Len(leads) < MaxLeads
    /\ leads' = Append(leads, NewLead(stage))
    /\ Answers("create_lead", Len(leads) + 1, FALSE, stage, "ok")

\* PATCH /leads/{lead_id} with a stage; the engine's lead persistence writes the
\* stage in the same way
UpdateLead(lead_id, stage) ==
    IF lead_id \notin LeadIds
    THEN /\ UNCHANGED leads
         /\ Answers("update_lead", lead_id, FALSE, stage, "404")
    ELSE /\ leads' = [leads EXCEPT ![lead_id].stage = stage]
         /\ Answers("update_lead", lead_id, FALSE, stage, "ok")

\* POST /leads/{lead_id}/convert
ConvertLead(lead_id) ==
    IF lead_id \notin LeadIds
    THEN /\ UNCHANGED leads
         /\ Answers("convert_lead", lead_id, FALSE, None, "404")
    ELSE /\ leads' = [leads EXCEPT ![lead_id].stage = WON]
         /\ Answers("convert_lead", lead_id, FALSE, None, "ok")

\* POST /outreach/send-followup/{lead_id}: the route and generate_followup; both
\* errors are answered with the status 400
SendFollowup(lead_id, dry_run) ==
    IF lead_id \notin LeadIds
    THEN /\ UNCHANGED leads
         /\ Answers("send_followup", lead_id, dry_run, None, "404")
    ELSE IF leads[lead_id].stage \in {WON, LOST, RESPONDED}
    THEN /\ UNCHANGED leads
         /\ Answers("send_followup", lead_id, dry_run, None, "cannot_follow_up")
    ELSE LET g == GenerateFollowup(leads[lead_id], dry_run, utcnow)
         IN  IF g.error # None
             THEN /\ UNCHANGED leads
                  /\ Answers("send_followup", lead_id, dry_run, None, g.error)
             ELSE /\ leads' = [leads EXCEPT ![lead_id] = g.lead]
                  /\ Answers("send_followup", lead_id, dry_run, None, "ok")

\* a schedule that counts every gap from the first touch
RequiredGap_FromFirstTouch(followup_count) ==
    IF followup_count > 0
    THEN FOLLOWUP_SCHEDULE[followup_count + 1].day
    ELSE 0

\* required_gap of get_pending_followups: the days between the next touch and
\* the one before it (the list is indexed from 0 in the code)
RequiredGap(followup_count) ==
    IF followup_count > 0
    THEN FOLLOWUP_SCHEDULE[followup_count + 1].day
            - FOLLOWUP_SCHEDULE[followup_count].day
    ELSE 0

\* a listing that takes every lead with a touch left, whatever the time
GetPendingFollowups_NoTiming(ls, t) ==
    {id \in 1..Len(ls) :
        /\ ls[id].stage \in {OUTREACH_DRAFTED, OUTREACH_SENT}
        /\ ls[id].followup_count < Len(FOLLOWUP_SCHEDULE)}

\* get_pending_followups at time t, as the set of the ids of the leads it
\* returns (last_followup_at = -1 is the null column; (now - last).days is
\* the difference of the two whole-day clocks)
GetPendingFollowups(ls, t) ==
    {id \in 1..Len(ls) :
        /\ ls[id].stage \in {OUTREACH_DRAFTED, OUTREACH_SENT}
        /\ ls[id].followup_count < Len(FOLLOWUP_SCHEDULE)
        /\ \/ ls[id].followup_count = 0 /\ ls[id].stage = OUTREACH_DRAFTED
           \/ /\ ls[id].last_followup_at # -1
              /\ t - ls[id].last_followup_at >= RequiredGap(ls[id].followup_count)}

\* GET /outreach/pending-followups
PendingFollowups ==
    /\ sweep' = [sweep EXCEPT !.pending = GetPendingFollowups(leads, utcnow)]
    /\ lead_call' = [handler |-> "pending_followups", lead_id |-> NoId,
                     dry_run |-> FALSE, stage |-> None, status |-> "ok"]
    /\ UNCHANGED <<engineVars, leads, utcnow, busVars>>

\* run_daily_followups, called by the job of the scheduler: generate_followup
\* with dry_run False for every lead of the listing; a lead whose call raises
\* is counted as an error and skipped
RunDailyFollowups ==
    LET pending == GetPendingFollowups(leads, utcnow)
        g(id) == GenerateFollowup(leads[id], FALSE, utcnow)
    IN  /\ leads' = [id \in 1..Len(leads) |->
                        IF id \in pending /\ g(id).error = None
                        THEN g(id).lead ELSE leads[id]]
        /\ sweep' = [at |-> utcnow, pending |-> pending,
                     sent |-> {id \in pending : g(id).error = None}]
        /\ lead_call' = [handler |-> "run_daily_followups", lead_id |-> NoId,
                         dry_run |-> FALSE, stage |-> None, status |-> "ok"]
        /\ UNCHANGED <<engineVars, utcnow, busVars>>

\* a day goes by
Tick ==
    /\ utcnow < MaxDay
    /\ utcnow' = utcnow + 1
    /\ UNCHANGED <<engineVars, leads, lead_call, sweep, busVars>>

InitFollowup ==
    /\ Init
    /\ modes = [p \in ControlledPairs |-> NoRow]

NextFollowup ==
    \/ \E stage \in LEAD_STAGES : CreateLead(stage)
    \/ \E id \in LeadIdArgs, stage \in LEAD_STAGES : UpdateLead(id, stage)
    \/ \E id \in LeadIdArgs : ConvertLead(id)
    \/ \E id \in LeadIdArgs, dry_run \in BOOLEAN : SendFollowup(id, dry_run)
    \/ PendingFollowups
    \/ RunDailyFollowups
    \/ Tick

SpecFollowup == InitFollowup /\ [][NextFollowup]_vars

----------------------------------------------------------------------------
(* The message bus (message_bus.py) with subscribers *)

\* number of subscriptions made
MaxSubscribers == 3
\* number of publish calls while handlers are subscribed
MaxPublish == 2
\* number of publish calls in a row on a bus without handlers
MaxBurst == 1002

\* event names, by their segments between the dots
Events ==
    {<<"workflow", "started">>, <<"approval", "requested">>,
     <<"workflow", "outreach", "completed">>}
\* subscription patterns, by their segments
Patterns == {<<"workflow", "*">>, <<"approval", "requested">>, <<"*">>}

\* the handlers: a def or an async def, that returns, raises, or (a coroutine)
\* never finishes
Handlers == {"sync_ok", "sync_raises", "async_ok", "async_raises", "async_hangs"}

\* asyncio.iscoroutinefunction(handler)
IsCoroutineFunction(handler) ==
    handler \in {"async_ok", "async_raises", "async_hangs"}

Raises(handler) == handler \in {"sync_raises", "async_raises"}

\* fnmatch.fnmatch(event, pattern) on names made of segments: a literal segment
\* matches itself, `*` matches whatever follows, dots included
RECURSIVE FnMatch(_, _)
FnMatch(name, pattern) ==
    IF pattern = << >> THEN name = << >>
    ELSE IF name = << >> THEN FALSE
    ELSE IF Head(pattern) = "*"
    THEN \E k \in 1..Len(name) :
            FnMatch(SubSeq(name, k + 1, Len(name)), Tail(pattern))
    ELSE Head(pattern) = Head(name) /\ FnMatch(Tail(name), Tail(pattern))

\* self._subscribers[pattern].append(handler): the dict keeps the patterns in
\* the order of their first subscription, each with its handlers in order
SubscribeTo(subs, pattern, handler) ==
    LET same == {i \in 1..Len(subs) : subs[i].pattern = pattern}
        entry == [pattern |-> pattern, handler |-> handler]
    IN  IF same = {} THEN Append(subs, entry)
        ELSE LET last == CHOOSE i \in same : \A j \in same : j <= i
             IN  SubSeq(subs, 1, last) \o <<entry>>
                    \o SubSeq(subs, last + 1, Len(subs))

\* the loop of publish over the subscriptions: a def is called on the spot, an
\* async def only makes its coroutine; a def that raises ends the loop, and
\* publish, with its exception
RECURSIVE Dispatch(_, _, _, _)
Dispatch(subs, event, invoked, coros) ==
    IF subs = << >>
    THEN [raised |-> FALSE, invoked |-> invoked, coros |-> coros]
    ELSE LET handler == Head(subs).handler
         IN  IF ~FnMatch(event, Head(subs).pattern)
             THEN Dispatch(Tail(subs), event, invoked, coros)
             ELSE IF IsCoroutineFunction(handler)
             THEN Dispatch(Tail(subs), event, invoked, Append(coros, handler))
             ELSE IF Raises(handler)
             THEN [raised |-> TRUE, invoked |-> Append(invoked, handler),
                   coros |-> coros]
             ELSE Dispatch(Tail(subs), event, Append(invoked, handler), coros)

\* MessageBus.subscribe
Subscribe(pattern, handler) ==
    /\ call.pc # "gather"
    /\ Len(subscribers) < MaxSubscribers
    /\ subscribers' = SubscribeTo(subscribers, pattern, handler)
    /\ UNCHANGED <<engineVars, leadVars, published, call>>

\* MessageBus.publish up to its await: the history, the loop over the
\* subscriptions and, when there are coroutines, asyncio.gather starting them
\* all; at most `bound` messages are published
PublishCall(event, run_id, bound) ==
    /\ call.pc # "gather"
    /\ Len(published) < bound
    /\ LET msg == Msg(event, run_id, None, NoId, None)
           d == Dispatch(subscribers, event, << >>, << >>)
       IN  /\ history' = Publish(history, msg)
           /\ published' = Append(published, msg)
           /\ call' = IF d.raised
                      THEN [pc |-> "raised", event |-> event,
                            invoked |-> d.invoked, coros |-> d.coros,
                            pending |-> {}]
                      ELSE IF d.coros = << >>
                      THEN [pc |-> "returned", event |-> event,
                            invoked |-> d.invoked, coros |-> << >>,
                            pending |-> {}]
                      ELSE [pc |-> "gather", event |-> event,
                            invoked |-> d.invoked \o d.coros,
                            coros |-> d.coros,
                            pending |-> 1..Len(d.coros)]
    /\ UNCHANGED <<runs, steps, approvals, modes, agentCalls, tasks, request,
                   response, now, leadVars, subscribers>>

\* a coroutine of the gather finishes, by returning or by raising (gather
\* keeps the exception as a result); publish returns when all have finished
HandlerFinishes(i) ==
    /\ call.pc = "gather"
    /\ i \in call.pending
    /\ call.coros[i] # "async_hangs"
    /\ call' = [call EXCEPT !.pending = @ \ {i},
                            !.pc = IF call.pending = {i} THEN "returned" ELSE @]
    /\ UNCHANGED <<engineVars, leadVars, subscribers, published>>

NextBus ==
    \/ \E pattern \in Patterns, handler \in Handlers : Subscribe(pattern, handler)
    \/ \E event \in Events : PublishCall(event, 1, MaxPublish)
    \/ \E i \in 1..MaxSubscribers : HandlerFinishes(i)

SpecBus == InitFollowup /\ [][NextBus]_vars

\* a bus without handlers, through which the run ids of started runs go
NextHistory ==
    PublishCall(<<"workflow", "started">>, Len(published) + 1, MaxBurst)

SpecHistory == InitFollowup /\ [][NextHistory]_vars

----------------------------------------------------------------------------
(* Vocabulary of the properties *)

TerminalRun == {W_COMPLETED, W_FAILED, W_CANCELLED}
DoneStep == {S_COMPLETED, S_FAILED, S_SKIPPED}

\* request a is pending and linked to step s of run r, which awaits approval
\* while its run is paused for approval
AwaitsDecision(a, r, s) ==
    /\ approvals[a].status = A_PENDING
    /\ steps[r][s].approval_id = a
    /\ steps[r][s].status = S_AWAITING
    /\ runs[r].status = W_PAUSED

\* this step is approve_action deciding request a
ApproveActionOf(a) ==
    /\ AllIdle
    /\ approvals[a].status = A_PENDING
    /\ approvals'[a].status = A_APPROVED
    /\ \A t \in Tasks : tasks'[t].kind # "bulk_approve"

\* this step is reject_action deciding request a
RejectActionOf(a) ==
    /\ AllIdle
    /\ approvals[a].status = A_PENDING
    /\ approvals'[a].status = A_REJECTED

\* after this step the execution loop stands at step `sid` of run r
LoopStandsAt(r, sid) ==
    \E t \in Tasks : /\ tasks'[t].pc = "loop"
                     /\ tasks'[t].run = r
                     /\ tasks'[t].current_step_id = sid

----------------------------------------------------------------------------
(* C1 *)

\* C1: approving a pending request linked to an awaiting step of a paused run
\* sets the request to approved, completes the step without calling its agent
\* again, sets the run's current step to the step's `next`, and the execution
\* loop goes on from that next step.
C1_ApproveResumesAtNext ==
    [][\A a \in ApprovalIds : \A r \in RunIds : \A s \in DOMAIN steps[r] :
          (AwaitsDecision(a, r, s) /\ ApproveActionOf(a)) =>
              LET next == NextOf(runs[r].workflow_name, s)
              IN  /\ approvals'[a].status = A_APPROVED
                  /\ steps'[r][s].status = S_COMPLETED
                  /\ agentCalls'[r][s] = agentCalls[r][s]
                  /\ runs'[r].current_step_id = next
                  /\ next # None => LoopStandsAt(r, next)]_vars

----------------------------------------------------------------------------
(* C2 *)

\* the number of approval.decided events published for request a
DecidedCount(h, a) ==
    CopiesOf(Decided(a, "approved"), h) + CopiesOf(Decided(a, "rejected"), h)

\* this step is a decision call that its handler turned down: approve_action or
\* reject_action answering 404 or 400, or bulk_approve finding nothing pending
TurnedDown ==
    /\ AllIdle
    /\ \A t \in Tasks : tasks'[t].pc = "idle"
    /\ request'.handler = response'.handler
    /\ \/ /\ response'.handler \in {"approve_action", "reject_action"}
          /\ response'.status \in {"404", "400"}
       \/ /\ response'.handler = "bulk_approve"
          /\ approvals' = approvals

\* C2: a decision applied to a request that is already decided or does not
\* exist is a no-op: a decided request keeps its status, decider, decision time,
\* modified payload and rejection reason for ever (so the status changes only
\* once, from pending), a turned-down call changes no run, step or request and
\* publishes nothing, bulk_approve queues only requests that were pending, and
\* at most one approval.decided event is published per request.
C2_DecidedRequestsAreFinal ==
    [][/\ \A a \in ApprovalIds :
             approvals[a].status # A_PENDING => approvals'[a] = approvals[a]
       /\ \A a \in ApprovalIds :
             approvals'[a].status # approvals[a].status =>
                 /\ approvals[a].status = A_PENDING
                 /\ approvals'[a].status \in {A_APPROVED, A_REJECTED}
       /\ TurnedDown => UNCHANGED <<runs, steps, approvals, history, agentCalls>>
       /\ \A t \in Tasks :
             (tasks[t].pc = "idle" /\ tasks'[t].pc = "bulk") =>
                 \A a \in tasks'[t].queue : approvals[a].status = A_PENDING
       /\ \A a \in DOMAIN approvals' :
             /\ DecidedCount(history', a) <= 1
             /\ DecidedCount(history', a) = 1 => approvals'[a].status # A_PENDING
      ]_vars

\* a second decision on a decided request was answered with 400
C2_Witness ==
    /\ response.handler \in {"approve_action", "reject_action"}
    /\ response.status = "400"
    /\ \E a \in ApprovalIds : approvals[a].status = A_REJECTED

----------------------------------------------------------------------------
(* C3 *)

\* run r was cancelled by the rejection of a request linked to one of its steps
RejectedRun(r) ==
    /\ runs[r].status = W_CANCELLED
    /\ \E s \in DOMAIN steps[r] :
          /\ steps[r][s].status = S_FAILED
          /\ steps[r][s].approval_id \in ApprovalIds
          /\ approvals[steps[r][s].approval_id].status = A_REJECTED

\* C3: rejecting a pending request linked to an awaiting step marks that step
\* FAILED and its run CANCELLED, and from then on no agent is invoked for the
\* run and none of its step statuses changes, whatever is called later.
C3_RejectCancelsForGood ==
    [][/\ \A a \in ApprovalIds : \A r \in RunIds : \A s \in DOMAIN steps[r] :
             ( /\ approvals[a].status = A_PENDING
               /\ steps[r][s].approval_id = a
               /\ steps[r][s].status = S_AWAITING
               /\ RejectActionOf(a) ) =>
                  /\ steps'[r][s].status = S_FAILED
                  /\ runs'[r].status = W_CANCELLED
       /\ \A r \in RunIds :
             RejectedRun(r) =>
                 /\ runs'[r].status = W_CANCELLED
                 /\ agentCalls'[r] = agentCalls[r]
                 /\ \A s \in DOMAIN steps[r] :
                       steps'[r][s].status = steps[r][s].status
      ]_vars

----------------------------------------------------------------------------
(* C4 *)

\* the place of step `id` in the chain of workflow `name`
Pos(name, id) == CHOOSE i \in 1..Len(GetConfig(name)) : GetConfig(name)[i].id = id

\* this step is the loop of task t running step `cur` of run r: the step's
\* action is HITL-controlled, no mode row exists for its (agent, action), and
\* the step's agent has executed and returned
GatedStepExecuted(t, r, cur) ==
    /\ tasks[t].pc = "exec"
    /\ tasks[t].run = r
    /\ tasks[t].current_step_id = cur
    /\ LET cfg == StepCfg(runs[r].workflow_name, cur)
       IN  /\ cfg.action \in HITL_CONTROLLED_ACTIONS
           /\ <<cfg.agent, cfg.action>> \in DOMAIN modes
                 => modes[<<cfg.agent, cfg.action>>] = NoRow
    /\ agentCalls'[r][cur] = agentCalls[r][cur] + 1
    /\ steps'[r][cur].status # S_FAILED

\* the run pauses at `cur`, which awaits the one request that was created
PausedOnNewRequest(r, cur) ==
    LET id == Len(approvals) + 1
        cfg == StepCfg(runs[r].workflow_name, cur)
    IN  /\ runs'[r].status = W_PAUSED
        /\ runs'[r].current_step_id = cur
        /\ steps'[r][cur].status = S_AWAITING
        /\ steps'[r][cur].approval_id = id
        /\ Len(approvals') = id
        /\ SubSeq(approvals', 1, Len(approvals)) = approvals
        /\ approvals'[id].status = A_PENDING
        /\ approvals'[id].payload = steps'[r][cur].output_data
        /\ approvals'[id].payload \in Outputs
        /\ approvals'[id].expires_at = approvals'[id].created_at + ApprovalExpiryHours
        /\ approvals'[id].created_at = now
        /\ approvals'[id].agent_slug = cfg.agent
        /\ approvals'[id].action_name = cfg.action

----------------------------------------------------------------------------
(* C5 *)

\* run `run` with step records `sts` never paused for an approval, took no
\* retry jump and had no failing step, given the published messages h
CleanRun(r, run, sts, h) ==
    /\ run.status \notin {W_FAILED, W_CANCELLED, W_PAUSED}
    /\ \A s \in DOMAIN sts :
          /\ sts[s].retry_count = 0
          /\ sts[s].status \notin {S_FAILED, S_AWAITING}
    /\ \A m \in {h[i] : i \in 1..Len(h)} :
          ~(m.event = <<"workflow", "approval_needed">> /\ m.run_id = r)

\* the statuses a step goes through in a run without pause, retry or failure
CleanMoves == {<<S_PENDING, S_RUNNING>>, <<S_RUNNING, S_COMPLETED>>}

\* C5: in a run in which no step pauses for approval, no retry is triggered
\* and every agent call succeeds, there is exactly one step record per defined
\* step, each step goes PENDING, RUNNING, COMPLETED once and in chain order with
\* one call of its agent, and when the loop has returned the run is COMPLETED
\* with every step COMPLETED.
C5_CleanRunCompletesInOrder ==
    [][\A r \in DOMAIN runs' :
          CleanRun(r, runs'[r], steps'[r], history') =>
              LET name == runs'[r].workflow_name
              IN  /\ DOMAIN steps'[r] = {GetConfig(name)[i].id : i \in 1..Len(GetConfig(name))}
                  /\ Cardinality(DOMAIN steps'[r]) = Len(GetConfig(name))
                  /\ \A s \in DOMAIN steps'[r] :
                        /\ steps'[r][s].status \in {S_PENDING, S_RUNNING, S_COMPLETED}
                        /\ agentCalls'[r][s] =
                              IF steps'[r][s].status = S_COMPLETED THEN 1 ELSE 0
                        /\ IF r \in RunIds
                           THEN \/ steps'[r][s].status = steps[r][s].status
                                \/ <<steps[r][s].status, steps'[r][s].status>> \in CleanMoves
                           ELSE steps'[r][s].status = S_PENDING
                  /\ \A s1, s2 \in DOMAIN steps'[r] :
                        (Pos(name, s1) < Pos(name, s2) /\ steps'[r][s2].status # S_PENDING)
                            => steps'[r][s1].status = S_COMPLETED
                  /\ (\A t \in Tasks : tasks'[t].pc = "idle") =>
                        /\ runs'[r].status = W_COMPLETED
                        /\ runs'[r].current_step_id = None
                        /\ \A s \in DOMAIN steps'[r] : steps'[r][s].status = S_COMPLETED
      ]_vars

\* a three-step chain ran to completion without pause, retry or failure
C5_Witness ==
    \E r \in RunIds :
        /\ CleanRun(r, runs[r], steps[r], history)
        /\ runs[r].workflow_name \in {"outreach", "content"}
        /\ runs[r].status = W_COMPLETED
        /\ AllIdle
        /\ \A s \in DOMAIN steps[r] :
              steps[r][s].status = S_COMPLETED /\ agentCalls[r][s] = 1

----------------------------------------------------------------------------
(* C6 *)

\* the steps of run r that carry a retry policy
RetrySteps(r) ==
    {s \in DOMAIN steps[r] :
        StepCfg(runs[r].workflow_name, s).retry_on_low_score # NoRetry}

Policy(r, s) == StepCfg(runs[r].workflow_name, s).retry_on_low_score

\* this step is the loop of task t completing step s of run r
LoopCompletes(t, r, s) ==
    /\ tasks[t].pc = "exec"
    /\ tasks[t].run = r
    /\ tasks[t].current_step_id = s
    /\ steps'[r][s].status = S_COMPLETED

\* the retry jump of step s: its counter goes up by one and the loop stands at
\* the policy's retry step
RetryJump(r, s) ==
    /\ steps'[r][s].retry_count = steps[r][s].retry_count + 1
    /\ runs'[r].current_step_id = Policy(r, s).retry_step
    /\ LoopStandsAt(r, Policy(r, s).retry_step)

\* the counter of step s never exceeds the budget, and it changes only in a
\* retry jump that the loop takes on completing s
CounterCountsJumps(r, s) ==
    /\ steps'[r][s].retry_count <= Policy(r, s).max_revisions
    /\ steps'[r][s].retry_count # steps[r][s].retry_count =>
          /\ \E t \in Tasks : LoopCompletes(t, r, s)
          /\ RetryJump(r, s)

\* C6 as stated: each time a step with a retry policy completes with a score
\* below the threshold and a counter below the budget, the counter goes up by
\* one and the retry step is executed next; with the budget used up the run
\* advances to the step's next; the counter never exceeds the budget and
\* counts the retry jumps.
C6_EveryLowCompletionRetries ==
    [][\A r \in RunIds : \A s \in RetrySteps(r) :
          /\ ( /\ steps[r][s].status # S_COMPLETED
               /\ steps'[r][s].status = S_COMPLETED ) =>
                 IF /\ OverallScore(steps'[r][s].output_data) < Policy(r, s).threshold
                    /\ steps[r][s].retry_count < Policy(r, s).max_revisions
                 THEN RetryJump(r, s)
                 ELSE steps[r][s].retry_count = Policy(r, s).max_revisions =>
                          runs'[r].current_step_id = NextOf(runs[r].workflow_name, s)
          /\ CounterCountsJumps(r, s)]_vars

\* C6, amended: the retry policy is evaluated each time the execution loop
\* completes the step (a step completed through an approval advances to its
\* next without it): low score and counter below the budget give the retry
\* jump, otherwise the run advances to the step's next; the counter never
\* exceeds the budget and changes only by one in such a jump.
C6_LoopCompletionRetries ==
    [][\A r \in RunIds : \A s \in RetrySteps(r) :
          /\ \A t \in Tasks :
                LoopCompletes(t, r, s) =>
                    IF /\ OverallScore(steps'[r][s].output_data) < Policy(r, s).threshold
                       /\ steps[r][s].retry_count < Policy(r, s).max_revisions
                    THEN RetryJump(r, s)
                    ELSE /\ steps'[r][s].retry_count = steps[r][s].retry_count
                         /\ runs'[r].current_step_id = NextOf(runs[r].workflow_name, s)
                         /\ LoopStandsAt(r, NextOf(runs[r].workflow_name, s))
          /\ CounterCountsJumps(r, s)]_vars

\* the review step used up its budget of two revisions: the writer ran three
\* times and the run went on to its end
C6_Witness ==
    \E r \in RunIds :
        /\ runs[r].workflow_name = "content"
        /\ steps[r]["b"].retry_count = 2
        /\ steps[r]["b"].output_data = "low"
        /\ agentCalls[r]["a"] = 3
        /\ agentCalls[r]["b"] = 3
        /\ runs[r].status = W_COMPLETED

----------------------------------------------------------------------------
(* C7 *)

\* this step is approve_action deciding request a with modified payload P
ApproveWithPayload(a, P) ==
    /\ ApproveActionOf(a)
    /\ request'.handler = "approve_action"
    /\ request'.body = P

\* C7: approving a pending request with a modified payload P replaces the
\* linked step's output and the run context entry of that step by P before any
\* later step runs, and the run resumes; the context entry then stays P while
\* the later steps execute, and the run is COMPLETED when the resumed loop
\* returns, unless a later step failed or paused.
C7_ModifiedPayloadReplacesOutput ==
    [][\A r \in RunIds : \A s \in DOMAIN steps[r] :
          /\ \A a \in ApprovalIds : \A P \in ModifiedPayloads :
                (AwaitsDecision(a, r, s) /\ ApproveWithPayload(a, P)) =>
                    /\ approvals'[a].modified_payload = P
                    /\ steps'[r][s].output_data = P
                    /\ runs'[r].context[s] = P
                    /\ steps'[r][s].status = S_COMPLETED
                    /\ agentCalls'[r] = agentCalls[r]
                    /\ \A x \in DOMAIN steps[r] \ {s} : steps'[r][x] = steps[r][x]
                    /\ LET next == NextOf(runs[r].workflow_name, s)
                       IN  IF next # None
                           THEN runs'[r].status = W_RUNNING /\ LoopStandsAt(r, next)
                           ELSE runs'[r].status = W_COMPLETED
          /\ ( /\ s \in DOMAIN runs[r].context
               /\ runs'[r].context[s] # runs[r].context[s] ) =>
                 \/ \E t \in Tasks : /\ tasks[t].pc = "exec"
                                      /\ tasks[t].run = r
                                      /\ tasks[t].current_step_id = s
                 \/ \E a \in ApprovalIds : \E P \in ModifiedPayloads :
                        /\ steps[r][s].approval_id = a
                        /\ ApproveWithPayload(a, P)
                        /\ runs'[r].context[s] = P
          /\ \A t \in Tasks :
                ( /\ tasks[t].kind = "approve_action"
                  /\ tasks[t].run = r
                  /\ tasks'[t].pc = "idle" ) =>
                     runs'[r].status \in {W_COMPLETED, W_FAILED, W_PAUSED}]_vars

----------------------------------------------------------------------------
(* C8 *)

\* this step changes run r, one of its steps or its context, or sets the loop
\* to work on it
Touches(r) ==
    \/ runs'[r] # runs[r]
    \/ steps'[r] # steps[r]
    \/ agentCalls'[r] # agentCalls[r]
    \/ \E t \in Tasks : tasks'[t].pc \in {"loop", "exec"} /\ tasks'[t].run = r

\* this step is a call of approve_step
ApproveStepCall == AllIdle /\ request'.handler = "approve_step"

\* this step is a call of resume_from_approval: by approve_action, by
\* reject_action, or by bulk_approve for one of its items
ResumeFromApprovalCall ==
    \/ AllIdle /\ request'.handler \in {"approve_action", "reject_action"}
    \/ \E t \in Tasks : tasks[t].pc = "bulk"

\* C8: approve_step and resume_from_approval, approving or rejecting, take
\* effect only when the run is PAUSED_FOR_APPROVAL and the step they resolve
\* (named by the call, or linked to the decided request) is AWAITING_APPROVAL;
\* otherwise they change no run, step or context and execute no step.
C8_ResumeOnlyWhenAwaiting ==
    [][\A r \in RunIds :
          /\ (ApproveStepCall /\ Touches(r)) =>
                /\ runs[r].status = W_PAUSED
                /\ \E s \in DOMAIN steps[r] :
                      /\ steps[r][s].status = S_AWAITING
                      /\ steps'[r][s].status \in {S_COMPLETED, S_FAILED}
          /\ (ResumeFromApprovalCall /\ Touches(r)) =>
                /\ runs[r].status = W_PAUSED
                /\ \E s \in DOMAIN steps[r] :
                      /\ steps[r][s].status = S_AWAITING
                      /\ steps'[r][s].status \in {S_COMPLETED, S_FAILED}
                      /\ steps[r][s].approval_id \in ApprovalIds
                      /\ approvals'[steps[r][s].approval_id].status # A_PENDING]_vars

----------------------------------------------------------------------------
(* C9 *)

----------------------------------------------------------------------------
(* C10 *)

\* C10: whenever the handlers have returned, a run is RUNNING or
\* PAUSED_FOR_APPROVAL if and only if its current_step_id is not null and one
\* of its steps is not yet COMPLETED, FAILED or SKIPPED.
C10_NonTerminalIffWorkLeft ==
    AllIdle =>
        \A r \in RunIds :
            runs[r].status \notin TerminalRun
                <=> /\ runs[r].current_step_id # None
                    /\ \E s \in DOMAIN steps[r] : steps[r][s].status \notin DoneStep

----------------------------------------------------------------------------
(* C11 *)

\* C11: in every reachable state a step in AWAITING_APPROVAL belongs to a run
\* that is PAUSED_FOR_APPROVAL, whatever start, approve_step (approving or
\* rejecting any step id of the run) and approval decisions were called.
C11_AwaitingImpliesPaused ==
    \A r \in RunIds : \A s \in DOMAIN steps[r] :
        steps[r][s].status = S_AWAITING => runs[r].status = W_PAUSED

----------------------------------------------------------------------------
\* C12: at most one execution loop is active for a run at any time, also when
\* approve_step calls and approval decisions for the run arrive concurrently
\* and interleave at their awaits.
ActiveLoops(r) ==
    {t \in DOMAIN tasks : tasks[t].pc \in {"loop", "exec"} /\ tasks[t].run = r}

C12_OneLoopPerRun ==
    \A r \in RunIds : Cardinality(ActiveLoops(r)) <= 1

----------------------------------------------------------------------------
\* C13: when decisions for one pending request interleave between their pending
\* check and their commit, one decision takes effect: at most one
\* approval.decided event is published for the request and at most one handler
\* goes on to resume or cancel the linked run.
Resuming(a) ==
    {t \in DOMAIN tasks : tasks[t].pc = "resuming" /\ a \in tasks[t].queue}

C13_OneDecisionTakesEffect ==
    \A a \in ApprovalIds :
        /\ DecidedCount(history, a) <= 1
        /\ Cardinality(Resuming(a)) <= 1

----------------------------------------------------------------------------
\* C14: the gate's result follows the mode configured for (agent, action), a
\* missing row counting as approve.  Whenever the loop passes an agent's output
\* of a controlled action through the gate: under auto the step proceeds, no
\* request is created and no approval.requested event is published; under
\* manual the step does not proceed, the reason is manual_only and no request is
\* created; under approve exactly one request is created, it is pending and
\* carries the agent and the action, approval.requested is published once with
\* its id, and the step does not proceed, with that id and the reason
\* awaiting_approval.
Requested(id) == Msg(<<"approval", "requested">>, NoId, None, id, None)

RequestedCount(h) ==
    Cardinality({i \in 1..Len(h) : h[i].event = <<"approval", "requested">>})

\* task t passes the output of its agent through the gate in this step
PassesGate(t) ==
    /\ tasks[t].pc = "exec"
    /\ StepCfg(runs[tasks[t].run].workflow_name, tasks[t].current_step_id).action
           \in HITL_CONTROLLED_ACTIONS
    /\ agentCalls' # agentCalls
    /\ steps'[tasks[t].run][tasks[t].current_step_id].status # S_FAILED

GateResult(t) ==
    LET r == tasks[t].run
        cur == tasks[t].current_step_id
        cfg == StepCfg(runs[r].workflow_name, cur)
        row == modes[<<cfg.agent, cfg.action>>]
        id == Len(approvals) + 1
        held == /\ steps'[r][cur].status = S_AWAITING
                /\ runs'[r].status = W_PAUSED
    IN  CASE row = M_AUTO ->
                /\ ~held
                /\ approvals' = approvals
                /\ RequestedCount(history') = RequestedCount(history)
          [] row = M_MANUAL ->
                /\ held
                /\ approvals' = approvals
                /\ RequestedCount(history') = RequestedCount(history)
                /\ steps'[r][cur].approval_id = NoId
                /\ CopiesOf(Msg(<<"workflow", "approval_needed">>, r, cur, NoId,
                                "manual_only"), history') > 0
          [] OTHER ->
                /\ held
                /\ Len(approvals') = Len(approvals) + 1
                /\ SubSeq(approvals', 1, Len(approvals)) = approvals
                /\ approvals'[id].status = A_PENDING
                /\ approvals'[id].agent_slug = cfg.agent
                /\ approvals'[id].action_name = cfg.action
                /\ RequestedCount(history') = RequestedCount(history) + 1
                /\ CopiesOf(Requested(id), history')
                       = CopiesOf(Requested(id), history) + 1
                /\ steps'[r][cur].approval_id = id
                /\ CopiesOf(Msg(<<"workflow", "approval_needed">>, r, cur, id,
                                "awaiting_approval"), history') > 0

C14_GateFollowsMode ==
    [][\A t \in Tasks : PassesGate(t) => GateResult(t)]_vars

\* a controlled action without configuration row went through the gate: its
\* step is held with the pending request whose approval.requested was published
C14_Witness ==
    \E r \in RunIds : \E s \in DOMAIN steps[r] :
        LET cfg == StepCfg(runs[r].workflow_name, s)
        IN  /\ cfg.action \in HITL_CONTROLLED_ACTIONS
            /\ agentCalls[r][s] > 0
            /\ modes[<<cfg.agent, cfg.action>>] = NoRow
            /\ steps[r][s].status = S_AWAITING
            /\ steps[r][s].approval_id \in ApprovalIds
            /\ approvals[steps[r][s].approval_id].status = A_PENDING
            /\ CopiesOf(Requested(steps[r][s].approval_id), history) = 1

----------------------------------------------------------------------------
\* C15: start called with a workflow name that has no definition, or whose
\* definition has no steps, fails with the configuration error and leaves the
\* system unchanged: no run record, no step record, no published event, no
\* agent invocation.
NotStartable(name) ==
    \/ name \notin DefinedWorkflows
    \/ WorkflowsConfig[name] = << >>

BadStartCall ==
    /\ AllIdle
    /\ request'.handler = "start_workflow"
    /\ NotStartable(request'.body)

C15_BadStartChangesNothing ==
    [][BadStartCall =>
          /\ response' = [handler |-> "start_workflow", status |-> "ValueError"]
          /\ \A t \in Tasks : tasks'[t].pc = "idle"
          /\ UNCHANGED <<runs, steps, approvals, history, agentCalls>>]_vars

\* a start of the workflow without steps was turned down while a run existed
C15_Witness ==
    /\ Len(runs) > 0
    /\ request.handler = "start_workflow"
    /\ request.body = "empty"
    /\ response = [handler |-> "start_workflow", status |-> "ValueError"]

----------------------------------------------------------------------------
\* C16: a successful generate with dry_run false on a lead with touch counter
\* n < 4 sets the counter to n + 1 and the last-touch time to now; when it is
\* the lead's first send the stage becomes OUTREACH_SENT; and the stage becomes
\* LOST if and only if n + 1 is the cadence length 4.
SendCall(id, dry_run) ==
    /\ utcnow' = utcnow
    /\ lead_call'.handler = "send_followup"
    /\ lead_call'.lead_id = id
    /\ lead_call'.dry_run = dry_run

C16_SendAdvancesCadence ==
    [][\A id \in LeadIds :
          LET n == leads[id].followup_count
          IN  (SendCall(id, FALSE) /\ lead_call'.status = "ok" /\ n < 4) =>
                 /\ leads'[id].followup_count = n + 1
                 /\ leads'[id].last_followup_at = utcnow
                 /\ (n = 0 => leads'[id].stage = OUTREACH_SENT)
                 /\ (leads'[id].stage = LOST <=> n + 1 = 4)]_vars

----------------------------------------------------------------------------
\* C17: generate on a lead whose touch counter already is the cadence length 4
\* fails with the exhaustion error, with dry_run true and false alike; and
\* whenever generate fails this way or is called with dry_run true, the lead's
\* counter, last-touch time and stage are unchanged.
\* send_followup hands the lead to generate_followup
GenerateCalled(id) == leads[id].stage \notin {WON, LOST, RESPONDED}

C17_ExhaustedOrDryRunChangesNothing ==
    [][\A id \in LeadIds, dry_run \in BOOLEAN :
          (SendCall(id, dry_run) /\ GenerateCalled(id)) =>
             /\ leads[id].followup_count = Len(FOLLOWUP_SCHEDULE)
                    => lead_call'.status = "exhausted"
             /\ (lead_call'.status = "exhausted" \/ dry_run) => leads' = leads]_vars

\* generate was called with dry_run true on a lead with all four touches sent
\* and failed with the exhaustion error
C17_Witness ==
    /\ lead_call.handler = "send_followup"
    /\ lead_call.status = "exhausted"
    /\ lead_call.dry_run
    /\ lead_call.lead_id \in LeadIds
    /\ leads[lead_call.lead_id].followup_count = 4

----------------------------------------------------------------------------
\* C18: for any publish with matching handlers, synchronous or asynchronous, a
\* handler that raises does not keep any other matching handler from being
\* invoked, and publish does not raise to the publisher.
Matching(event) ==
    {i \in 1..Len(subscribers) : FnMatch(event, subscribers[i].pattern)}

C18_RaisingHandlerIsIsolated ==
    [][published' # published =>
          /\ call'.pc # "raised"
          /\ Len(call'.invoked) = Cardinality(Matching(call'.event))]_vars

----------------------------------------------------------------------------
\* C19: a subscriber that is slow or never finishes cannot stall the publisher:
\* the execution loop that publishes an event goes on without waiting for the
\* event's handlers to complete, so publish is never found waiting for one.
C19_PublisherNeverWaits ==
    ~(call.pc = "gather" /\ call.pending # {})

----------------------------------------------------------------------------
\* C20: after any sequence of k publish calls the history holds at most 1000
\* entries and is the most recent min(k, 1000) published messages, in publish
\* order.
Min(a, b) == IF a <= b THEN a ELSE b

C20_HistoryIsMostRecent ==
    LET k == Len(published)
    IN  /\ Len(history) <= 1000
        /\ history = SubSeq(published, k - Min(k, 1000) + 1, k)

\* more than 1000 messages were published and the oldest was dropped
C20_Witness ==
    /\ Len(published) > MAX_HISTORY
    /\ Len(history) = MAX_HISTORY
    /\ history[1] = published[Len(published) - MAX_HISTORY + 1]

----------------------------------------------------------------------------
\* C21: every run that ends COMPLETED has published workflow.<name>.started
\* exactly once and workflow.<name>.completed exactly once, in that order,
\* whether it completed inside start, after approve_step, or after an approval
\* decision.
Started(r) ==
    Msg(<<"workflow", runs[r].workflow_name, "started">>, r, None, NoId, None)

Completed(r) ==
    Msg(<<"workflow", runs[r].workflow_name, "completed">>, r, None, NoId, None)

Places(msg, h) == {i \in 1..Len(h) : h[i] = msg}

C21_CompletedRunPublishedBoth ==
    \A r \in RunIds :
        runs[r].status = W_COMPLETED =>
            /\ Cardinality(Places(Started(r), history)) = 1
            /\ Cardinality(Places(Completed(r), history)) = 1
            /\ \A i \in Places(Started(r), history) :
                  \A j \in Places(Completed(r), history) : i < j
----------------------------------------------------------------------------
\* C22: whenever the last step of a run (the step whose `next` is null)
\* completes without failure, the run becomes COMPLETED, whichever path
\* completed it: the execution loop (which then ends at its next test of the
\* step pointer), approve_step approving it, or an approval decision approving
\* it.
LastStepCompletes(r, s) ==
    /\ r \in RunIds
    /\ s \in DOMAIN steps[r]
    /\ NextOf(runs[r].workflow_name, s) = None
    /\ steps[r][s].status # S_COMPLETED
    /\ steps'[r][s].status = S_COMPLETED
    /\ steps'[r][s].retry_count = steps[r][s].retry_count

\* the loop of run r is at the end of its steps and completes the run next
LoopEnds(r) ==
    \E t \in Tasks :
        /\ tasks'[t].pc = "loop"
        /\ tasks'[t].run = r
        /\ tasks'[t].current_step_id = None

C22_LastStepDoneCompletesRun ==
    [][\A r \in RunIdArgs, s \in StepIds :
          LastStepCompletes(r, s) =>
              \/ runs'[r].status = W_COMPLETED
              \/ LoopEnds(r)]_vars
----------------------------------------------------------------------------
\* C23: when the current step's definition requires human approval, the loop
\* suspends before doing anything else for it: the step goes to
\* AWAITING_APPROVAL and the run to PAUSED_FOR_APPROVAL, workflow.approval_needed
\* (and nothing else) is published with that state, no agent is invoked for the
\* step, no ApprovalRequest is created and the loop returns; while the run is
\* held at the gate no step record changes and no agent runs except in a
\* resume call (approve_step or an approval decision).
AtHumanGate(t) ==
    /\ tasks[t].pc = "loop"
    /\ tasks[t].current_step_id # None
    /\ HasStepCfg(runs[tasks[t].run].workflow_name, tasks[t].current_step_id)
    /\ StepCfg(runs[tasks[t].run].workflow_name,
               tasks[t].current_step_id).requires_human_approval

Suspends(t) ==
    LET r == tasks[t].run
        cur == tasks[t].current_step_id
        needed == Msg(<<"workflow", "approval_needed">>, r, cur, NoId, None)
    IN  /\ steps'[r][cur].status = S_AWAITING
        /\ runs'[r].status = W_PAUSED
        /\ runs'[r].current_step_id = cur
        /\ history' = Append(history, needed)
        /\ agentCalls' = agentCalls
        /\ approvals' = approvals
        /\ tasks'[t].pc \notin {"loop", "exec"}

HeldAtGate(r) ==
    /\ runs[r].status = W_PAUSED
    /\ runs[r].current_step_id # None
    /\ HasStepCfg(runs[r].workflow_name, runs[r].current_step_id)
    /\ StepCfg(runs[r].workflow_name,
               runs[r].current_step_id).requires_human_approval
    /\ steps[r][runs[r].current_step_id].status = S_AWAITING

ResumeCalls == {"approve_step", "approve_action", "reject_action", "bulk_approve"}

C23_HumanGateSuspends ==
    [][/\ \A t \in Tasks : AtHumanGate(t) => Suspends(t)
       /\ \A r \in RunIds :
             (HeldAtGate(r) /\ (steps'[r] # steps[r] \/ agentCalls'[r] # agentCalls[r]))
                 => request'.handler \in ResumeCalls]_vars

\* the run is held at the gate of step b with step a done and step c waiting
C23_Witness ==
    \E r \in RunIds :
        /\ HeldAtGate(r)
        /\ AllIdle
        /\ runs[r].current_step_id = "b"
        /\ steps[r]["a"].status = S_COMPLETED
        /\ steps[r]["c"].status = S_PENDING
        /\ agentCalls[r]["b"] = 0
----------------------------------------------------------------------------
\* C24: the number of executions of a step in a run is bounded by the revision
\* budgets of the run's retry policies: a step is executed once, and once more
\* for each revision the policies of its pipeline allow; and an execution loop
\* that returns leaves its run COMPLETED, FAILED or PAUSED_FOR_APPROVAL.
RECURSIVE SumRevisions(_, _)
SumRevisions(cfg, n) ==
    IF n = 0 THEN 0
    ELSE cfg[n].retry_on_low_score.max_revisions + SumRevisions(cfg, n - 1)

\* the revisions the retry policies of a pipeline allow in all
RevisionBudget(name) == SumRevisions(GetConfig(name), Len(GetConfig(name)))

ExecutionsBounded ==
    \A r \in RunIds : \A s \in DOMAIN steps[r] :
        agentCalls[r][s] <= 1 + RevisionBudget(runs[r].workflow_name)

C24_LoopBoundedByBudgets == ExecutionsBounded

\* the loop of a task returns to its handler
LoopReturned(t) ==
    /\ tasks[t].pc \in {"loop", "exec"}
    /\ tasks'[t].pc \notin {"loop", "exec"}

C24_LoopEndsInThreeStates ==
    [][\A t \in Tasks :
          LoopReturned(t) =>
              runs'[tasks[t].run].status \in {W_COMPLETED, W_FAILED, W_PAUSED}]_vars
----------------------------------------------------------------------------
\* C25: the run context is cumulative: it holds, keyed by step id, the latest
\* output of every step an agent has executed, so the context an agent is
\* invoked with contains the latest output of every step executed before it;
\* entries are never removed, and the context entry of an agent-executed step
\* equals the step's stored output, also after a retry re-execution and after
\* an approval with a modified payload.
Executed(r) == {s \in DOMAIN steps[r] : agentCalls[r][s] > 0 /\ steps[r][s].output_data # None}

ContextMatchesOutputs ==
    \A r \in RunIds : \A s \in Executed(r) :
        /\ s \in DOMAIN runs[r].context
        /\ runs[r].context[s] = steps[r][s].output_data

ContextKeepsEntries ==
    \A r \in RunIds : DOMAIN runs[r].context \subseteq DOMAIN runs'[r].context

C25_ContextIsCumulative ==
    [][ContextKeepsEntries /\ ContextMatchesOutputs']_vars

\* an agent is about to be invoked for step b after step a, whose awaited
\* output was replaced by the payload of its approval
C25_Witness ==
    \E r \in RunIds, t \in Tasks :
        /\ tasks[t].pc = "exec"
        /\ tasks[t].run = r
        /\ tasks[t].current_step_id = "b"
        /\ "a" \in Executed(r)
        /\ steps[r]["a"].output_data = "mod"
        /\ runs[r].context["a"] = "mod"

\* a step that was executed twice because of a retry policy has its latest
\* output in the context
C25_WitnessRetry ==
    \E r \in RunIds, s \in StepIds :
        /\ s \in Executed(r)
        /\ agentCalls[r][s] = 2
        /\ \E b \in DOMAIN steps[r] : steps[r][b].retry_count > 0
        /\ runs[r].context[s] = steps[r][s].output_data
----------------------------------------------------------------------------
\* C28: whenever a run is PAUSED_FOR_APPROVAL, exactly one of its steps is
\* AWAITING_APPROVAL and that step's id equals the run's current_step_id,
\* after any sequence of start, approve_step and approval decisions.
AwaitingSteps(r) == {s \in DOMAIN steps[r] : steps[r][s].status = S_AWAITING}

C28_PausedHasOneAwaitingStep ==
    \A r \in RunIds :
        runs[r].status = W_PAUSED =>
            AwaitingSteps(r) = {runs[r].current_step_id}
----------------------------------------------------------------------------
\* C29: terminal run states are absorbing: once a run is COMPLETED, FAILED or
\* CANCELLED, no later approve_step call, approval decision or
\* resume_from_approval changes its status, current_step_id or context or the
\* status or output of any of its steps, and no agent is invoked for it again.
Terminal(r) == runs[r].status \in {W_COMPLETED, W_FAILED, W_CANCELLED}

RunFrozen(r) ==
    /\ runs'[r].status = runs[r].status
    /\ runs'[r].current_step_id = runs[r].current_step_id
    /\ runs'[r].context = runs[r].context
    /\ \A s \in DOMAIN steps[r] :
          /\ steps'[r][s].status = steps[r][s].status
          /\ steps'[r][s].output_data = steps[r][s].output_data
    /\ agentCalls'[r] = agentCalls[r]
    /\ \A t \in Tasks : tasks'[t].pc \in {"loop", "exec"} => tasks'[t].run # r

C29_TerminalIsAbsorbing ==
    [][\A r \in RunIds : Terminal(r) => RunFrozen(r)]_vars

\* an approval request was approved after its run had been cancelled through
\* another step: the run and its still awaiting step are as they were
C29_Witness ==
    \E r \in RunIds, a \in ApprovalIds :
        /\ Terminal(r)
        /\ AllIdle
        /\ request.handler = "approve_action"
        /\ response = [handler |-> "approve_action", status |-> "ok"]
        /\ approvals[a].status = A_APPROVED
        /\ \E s \in DOMAIN steps[r] :
              /\ steps[r][s].approval_id = a
              /\ steps[r][s].status = S_AWAITING
----------------------------------------------------------------------------
\* C26: the listing of the due leads returns a lead if and only if its stage is
\* OUTREACH_DRAFTED or OUTREACH_SENT, its touch counter n is below 4, and its
\* next touch is due: either n = 0 and the stage is OUTREACH_DRAFTED, or the
\* whole days elapsed since the last touch are at least
\* schedule[n].day - schedule[n-1].day, which is 3, 4 and 7 days for n = 1, 2, 3.
GapDays == <<3, 4, 7>>

Touched(lead) == lead.last_followup_at # -1

NextTouchDue(lead, t) ==
    \/ lead.followup_count = 0 /\ lead.stage = OUTREACH_DRAFTED
    \/ /\ lead.followup_count \in 1..3
       /\ Touched(lead)
       /\ t - lead.last_followup_at >= GapDays[lead.followup_count]

DueLeads ==
    {id \in LeadIds :
        /\ leads[id].stage \in {OUTREACH_DRAFTED, OUTREACH_SENT}
        /\ leads[id].followup_count < 4
        /\ NextTouchDue(leads[id], utcnow)}

\* the listing of the due leads is called
Listed ==
    /\ lead_call'.handler = "pending_followups"
    /\ utcnow' = utcnow

C26_DueListIsExact ==
    [][Listed => sweep'.pending = DueLeads]_vars

\* the listing returned a lead whose last touch of three is exactly 7 days old
C26_Witness ==
    /\ lead_call.handler = "pending_followups"
    /\ sweep.pending = {1}
    /\ leads[1].followup_count = 3
    /\ utcnow - leads[1].last_followup_at = 7

\* the listing left out a lead whose second touch is 3 days old
C26_WitnessNotDue ==
    /\ lead_call.handler = "pending_followups"
    /\ sweep.pending = {}
    /\ Len(leads) = 1
    /\ leads[1].stage = OUTREACH_SENT
    /\ leads[1].followup_count = 2
    /\ utcnow - leads[1].last_followup_at = 3
----------------------------------------------------------------------------
\* C30: the daily sweep sends each due lead at most one touch per sweep and
\* never sends touch k (k = 1, 2, 3) less than schedule[k].day -
\* schedule[k-1].day whole days after the previous touch; so a second sweep run
\* with no days elapsed since the first sends nothing more to any lead the
\* first sweep touched.
\* the daily sweep runs
Swept ==
    /\ lead_call'.handler = "run_daily_followups"
    /\ utcnow' = utcnow

TouchesSent(id) == leads'[id].followup_count - leads[id].followup_count

C30_SweepKeepsTheGaps ==
    [][Swept =>
          \A id \in LeadIds :
              /\ TouchesSent(id) \in {0, 1}
              /\ TouchesSent(id) = 1 <=> id \in sweep'.sent
              /\ (TouchesSent(id) = 1 /\ leads[id].followup_count \in 1..3) =>
                    utcnow - leads[id].last_followup_at
                        >= GapDays[leads[id].followup_count]
              /\ (sweep.at = utcnow /\ id \in sweep.sent) =>
                    leads'[id] = leads[id]]_vars

\* a sweep has just sent touch 1 to a lead, three days or more after touch 0
C30_Witness ==
    /\ lead_call.handler = "run_daily_followups"
    /\ sweep.sent = {1}
    /\ sweep.at = utcnow
    /\ leads[1].followup_count = 2
    /\ leads[1].last_followup_at = utcnow
    /\ utcnow >= 3

\* a sweep found nothing to send to a lead touched earlier the same day
C30_WitnessSameDay ==
    /\ lead_call.handler = "run_daily_followups"
    /\ sweep.sent = {}
    /\ sweep.at = utcnow
    /\ Len(leads) = 1
    /\ leads[1].stage = OUTREACH_SENT
    /\ leads[1].followup_count = 1
    /\ leads[1].last_followup_at = utcnow
----------------------------------------------------------------------------
\* C27: on every publish, each subscription (pattern, handler) whose pattern
\* matches the event name has its handler invoked exactly once with the
\* message, and no handler of a non-matching pattern is invoked; a pattern
\* without wildcards matches only the identical name and `prefix.*` matches
\* every name that starts with `prefix.`, however many further segments follow.
HasWildcard(pattern) == \E i \in 1..Len(pattern) : pattern[i] = "*"

\* the pattern is `prefix.*` (or `*` alone) and the name goes on after the prefix
StartsWithPrefix(name, pattern) ==
    LET n == Len(pattern) - 1
    IN  /\ pattern[Len(pattern)] = "*"
        /\ ~HasWildcard(SubSeq(pattern, 1, n))
        /\ Len(name) > n
        /\ SubSeq(name, 1, n) = SubSeq(pattern, 1, n)

PatternMatches(name, pattern) ==
    IF HasWildcard(pattern) THEN StartsWithPrefix(name, pattern)
    ELSE name = pattern

\* how often the handler is subscribed under a pattern that matches the event
SubscribedFor(handler, event) ==
    Cardinality({i \in 1..Len(subscribers) :
        /\ subscribers[i].handler = handler
        /\ PatternMatches(event, subscribers[i].pattern)})

\* how often the publish call has invoked the handler
InvokedTimes(handler) ==
    Cardinality({i \in 1..Len(call'.invoked) : call'.invoked[i] = handler})

C27_MatchingHandlersInvokedOnce ==
    [][published' # published =>
          \A handler \in Handlers :
              InvokedTimes(handler) = SubscribedFor(handler, call'.event)]_vars

\* the matching of the bus agrees with the two rules on every pattern and name
C27_MatchingRules ==
    \A event \in Events, pattern \in Patterns :
        FnMatch(event, pattern) <=> PatternMatches(event, pattern)

============================================================================
